---------------------------- MODULE Spec2Model ----------------------------
(***************************************************************************)
(* A model of the ESBench core: the suite model (Scene, BenchCase), the    *)
(* profiling driver (ProfilingContext) and the runner entry (runSuite).    *)
(*                                                                         *)
(* These specifications share the module's variables:                       *)
(*   SpecScene   the registration operations of one Scene                  *)
(*   SpecInvoke  one call of BenchCase.invoke, await by await              *)
(*   Spec        runSuite driving ProfilingContext.run, await by await     *)
(*   SpecValidate  the same for a suite with `validate`                    *)
(*   SpecTime    one call of TimeWorker.onCase, call by call               *)
(*   SpecMeasure the overhead and zero-measurement stages of the time      *)
(*               profiler, sample by sample                                *)
(*   SpecSummary the construction of a Summary and its queries             *)
(*   SpecRemote  the requests served by a WebRemoteExecutor                *)
(*   SpecNormalize  the normalisation of a suite and of its baseline       *)
(*   SpecFilter  the older summary, SummaryTableFilter, and its groupBy    *)
(*   SpecWorkflow  a context made by newWorkflow, run beside its parent    *)
(*   SpecJobs    JobGenerator: add, build, getJobs                         *)
(*   SpecHost    the host loop ESBench.run over builds and engines         *)
(* Each specification leaves the variables of the others at their idle     *)
(* values.                                                                 *)
(***************************************************************************)
EXTENDS Integers, Sequences, FiniteSets, TLC

VARIABLES
    (* ---- Scene registration (SpecScene) ---- *)
    scn,        \* the Scene under registration
    calls,      \* history: the bench/benchAsync calls made and how each ended
    (* ---- BenchCase.invoke (SpecInvoke) ---- *)
    inv,        \* the frame of the invoke() call
    itrace,     \* history: what invoke() has run so far
    (* ---- runSuite and ProfilingContext.run (Spec) ---- *)
    suite,      \* the user suite handed to runSuite
    pc,         \* position of the driver task
    ctx,        \* the ProfilingContext's fields
    frame,      \* locals of run/runScene/runHooks: loop indices, scene, metrics, pending error
    outcome,    \* how runSuite ended
    trace,      \* history: every user callback the driver has called
    sceneLog,   \* history: what setup registered on each scene constructed
    rerun,      \* history: calls of run() made after the first one
    (* ---- TimeWorker.onCase (SpecTime) ---- *)
    tw,         \* the frame of the onCase() call: configuration, case, loop variables, clock
    tlog,       \* history: every hook and workload call the invoker has made
    (* ---- ExecutionTimeMeasurement.run (SpecMeasure) ---- *)
    etm,        \* the measurement of one case: options, samples taken, notes, result
    (* ---- Summary (SpecSummary) ---- *)
    sm,         \* the Summary under construction and the toolchain results given to it
    (* ---- WebRemoteExecutor (SpecRemote) ---- *)
    wr,         \* the executor: the task installed, if any
    wlog,       \* history: the requests served and the messages dispatched
    (* ---- normalizeSuite and convertBaseline (SpecNormalize) ---- *)
    nsuite,     \* the suite given, its normalised form, the baseline of the result
    (* ---- JobGenerator (SpecJobs) ---- *)
    jg,         \* the generator: its tool entries, the builds and the jobs
    (* ---- ESBench.run (SpecHost) ---- *)
    host        \* the host loop, the engine's process and its listener

sceneVars  == <<scn, calls>>
invokeVars == <<inv, itrace>>
runVars    == <<suite, pc, ctx, frame, outcome, trace, sceneLog, rerun>>
timeVars   == <<tw, tlog>>
measureVars == <<etm>>
summaryVars == <<sm>>
remoteVars == <<wr, wlog>>
normVars   == <<nsuite>>
jobVars    == <<jg>>
hostVars   == <<host>>
vars       == <<scn, calls, inv, itrace, suite, pc, ctx, frame, outcome, trace, sceneLog, rerun,
                tw, tlog, etm, sm, wr, wlog, nsuite, jg, host>>

(***************************************************************************)
(* Bounds of the model.                                                    *)
(***************************************************************************)
MaxCalls     == 3   \* registration calls made on one Scene in SpecScene
MaxHooks     == 2   \* iteration hooks of each kind on the invoked case
NumProfilers == 2   \* profilers the suite registers, besides the DefaultEventLogger
MaxReruns    == 1   \* calls of run() after the first one
MaxNotes     == 1   \* notes the profilers add in one run

(***************************************************************************)
(* Values.  A case name is a sequence of characters, so that blankness and *)
(* pattern matching are computed from the characters.                      *)
(***************************************************************************)
Whitespace == {" "}
Digits == <<"0", "1", "2", "3", "4", "5", "6", "7", "8", "9">>
CaseNames  == {<<>>, <<" ">>, <<" ", " ">>, <<"a">>, <<"b">>, <<"a", "b">>}

\* /^\s*$/.test(name)
IsBlank(name) == \A i \in DOMAIN name : name[i] \in Whitespace

\* The include patterns: RE_ANY (matches every name), /a/ and /b/.
RE_ANY   == ""
Patterns == {RE_ANY, "a", "b"}

\* RegExp.prototype.test for the patterns above
test(re, name) == re = RE_ANY \/ \E i \in DOMAIN name : name[i] = re

\* A thrown value.  `origin` names who threw; a RunSuiteError carries its cause.
\* `cause`, `params` and `paramStr` hold at most one element: <<>> is undefined.
NoError == [type |-> "none", message |-> "", origin |-> "",
            cause |-> <<>>, params |-> <<>>, paramStr |-> <<>>]
Error(message, origin) ==
    [type |-> "Error", message |-> message, origin |-> origin,
     cause |-> <<>>, params |-> <<>>, paramStr |-> <<>>]

\* Outcome of an operation that may throw.
Ok(v)     == [ok |-> TRUE, value |-> v, error |-> NoError]
Throw(e)  == [ok |-> FALSE, value |-> <<>>, error |-> e]

(***************************************************************************)
(* Scene and BenchCase                                                     *)
(***************************************************************************)
NoId == -1

\* new BenchCase(scene, name, fn, isAsync): the case shares the scene's hook lists,
\* which are read from the scene when the case is invoked.
BenchCase(name, fn, isAsync) ==
    [name |-> name, fn |-> fn, isAsync |-> isAsync, id |-> NoId]

\* new Scene(params, include)
Scene(params, include) ==
    [params |-> params, include |-> include, cases |-> <<>>,
     teardownHooks |-> <<>>, beforeIterHooks |-> <<>>, afterIterHooks |-> <<>>]

beforeIteration(scene, fn) ==
    [scene EXCEPT !.beforeIterHooks = Append(@, fn)]

afterIteration(scene, fn) ==
    [scene EXCEPT !.afterIterHooks = Append(@, fn)]

teardown(scene, fn) ==
    [scene EXCEPT !.teardownHooks = Append(@, fn)]

\* Scene.add: the name rules, then the include pattern.
add(scene, name, fn, isAsync) ==
    IF IsBlank(name) THEN Throw(Error("Case name cannot be blank.", "add"))
    ELSE IF \E i \in DOMAIN scene.cases : scene.cases[i].name = name
    THEN Throw(Error("Case already exists.", "add"))
    ELSE IF test(scene.include, name)
    THEN Ok([scene EXCEPT !.cases = Append(@, BenchCase(name, fn, isAsync))])
    ELSE Ok(scene)

bench(scene, name, fn) == add(scene, name, fn, FALSE)

benchAsync(scene, name, fn) == add(scene, name, fn, TRUE)



(***************************************************************************)
(* Idle values: what a specification leaves the other parts at.            *)
(***************************************************************************)
IdleScene  == scn = Scene(<<>>, RE_ANY) /\ calls = <<>>
IdleInvoke == inv = [pc |-> "idle"] /\ itrace = <<>>
IdleTime   == tw = [pc |-> "idle"] /\ tlog = <<>>
IdleMeasure == etm = [pc |-> "idle"]
IdleSummary == sm = [pc |-> "idle"]
IdleRemote == wr = [pc |-> "idle"] /\ wlog = <<>>
IdleNormalize == nsuite = [pc |-> "idle"]
IdleJobs == jg = [pc |-> "idle"]
IdleHost == host = [pc |-> "idle"]
IdleRun    ==
    /\ suite = [name |-> "idle"]
    /\ pc = "idle"
    /\ ctx = [hasRun |-> FALSE]
    /\ frame = [k |-> 0]
    /\ outcome = [state |-> "idle"]
    /\ trace = <<>>
    /\ sceneLog = <<>>
    /\ rerun = <<>>

(***************************************************************************)
(* SpecScene: the registration operations of one Scene, called in any      *)
(* order with any arguments.                                               *)
(***************************************************************************)
HookFns == {1, 2}       \* the hook functions a suite may register
AnyFn   == 0            \* a workload function

Call(op, name, fn, r) ==
    [op |-> op, name |-> name, fn |-> fn, threw |-> ~r.ok, message |-> r.error.message]

InitScene ==
    /\ \E include \in Patterns : scn = Scene(<<>>, include)
    /\ calls = <<>>
    /\ IdleInvoke /\ IdleRun /\ IdleTime /\ IdleMeasure /\ IdleSummary /\ IdleRemote /\ IdleNormalize /\ IdleJobs /\ IdleHost

DoBench ==
    /\ Len(calls) < MaxCalls
    /\ \E name \in CaseNames :
        LET r == bench(scn, name, AnyFn) IN
        /\ scn' = IF r.ok THEN r.value ELSE scn
        /\ calls' = Append(calls, Call("bench", name, AnyFn, r))
    /\ UNCHANGED <<invokeVars, runVars, timeVars, measureVars, summaryVars, remoteVars, normVars, jobVars, hostVars>>

DoBenchAsync ==
    /\ Len(calls) < MaxCalls
    /\ \E name \in CaseNames :
        LET r == benchAsync(scn, name, AnyFn) IN
        /\ scn' = IF r.ok THEN r.value ELSE scn
        /\ calls' = Append(calls, Call("benchAsync", name, AnyFn, r))
    /\ UNCHANGED <<invokeVars, runVars, timeVars, measureVars, summaryVars, remoteVars, normVars, jobVars, hostVars>>

DoBeforeIteration ==
    /\ Len(calls) < MaxCalls
    /\ \E fn \in HookFns :
        /\ scn' = beforeIteration(scn, fn)
        /\ calls' = Append(calls, Call("beforeIteration", <<>>, fn, Ok(<<>>)))
    /\ UNCHANGED <<invokeVars, runVars, timeVars, measureVars, summaryVars, remoteVars, normVars, jobVars, hostVars>>

DoAfterIteration ==
    /\ Len(calls) < MaxCalls
    /\ \E fn \in HookFns :
        /\ scn' = afterIteration(scn, fn)
        /\ calls' = Append(calls, Call("afterIteration", <<>>, fn, Ok(<<>>)))
    /\ UNCHANGED <<invokeVars, runVars, timeVars, measureVars, summaryVars, remoteVars, normVars, jobVars, hostVars>>

DoTeardown ==
    /\ Len(calls) < MaxCalls
    /\ \E fn \in HookFns :
        /\ scn' = teardown(scn, fn)
        /\ calls' = Append(calls, Call("teardown", <<>>, fn, Ok(<<>>)))
    /\ UNCHANGED <<invokeVars, runVars, timeVars, measureVars, summaryVars, remoteVars, normVars, jobVars, hostVars>>

NextScene == DoBench \/ DoBenchAsync \/ DoBeforeIteration \/ DoAfterIteration \/ DoTeardown

SpecScene == InitScene /\ [][NextScene]_vars

IsBenchCall(c) == c.op \in {"bench", "benchAsync"}

\* C5: bench and benchAsync reject a blank name and a name already passed to an
\* earlier bench/benchAsync call on the same scene, whether or not the include
\* pattern matches the name (also when the earlier case with that name was
\* filtered out); a rejected call adds no case.
C5_NameRulesBeforeFilter ==
    /\ \A i \in DOMAIN calls :
        LET c == calls[i] IN
        IsBenchCall(c) =>
            ( c.threw <=>
                \/ IsBlank(c.name)
                \/ \E j \in 1..(i - 1) : IsBenchCall(calls[j]) /\ calls[j].name = c.name )
    /\ Len(scn.cases) = Cardinality({i \in DOMAIN calls :
            IsBenchCall(calls[i]) /\ ~calls[i].threw /\ test(scn.include, calls[i].name)})

(***************************************************************************)
(* SpecInvoke: one call of BenchCase.invoke.  Every await of invoke and of *)
(* runFns is a step; the promise an asynchronous workload returns settles  *)
(* in a step of its own, whenever the workload's work is done.             *)
(*                                                                         *)
(* The repository holds two texts of invoke: core's `return await          *)
(* this.fn()` and packages/core's `return this.fn()`.  inv.variant says    *)
(* which one the call runs.                                                *)
(***************************************************************************)
Variants  == {"core", "packages"}

\* A workload: whether it returns a promise, and whether it fails (throws, or
\* returns a promise that rejects).
Workloads == [promise : BOOLEAN, fails : BOOLEAN]

WorkloadError == Error("workload failed", "workload")
HookError(kind, k) == Error("hook failed", kind)

Event(ev, k, settled) == [ev |-> ev, k |-> k, settled |-> settled]

Settled(f) == f.promise \in {"none", "fulfilled", "rejected"}

InitInvoke ==
    /\ \E variant \in Variants, fn \in Workloads, nb \in 0..MaxHooks, na \in 0..MaxHooks :
        inv = [pc |-> "before", variant |-> variant, fn |-> fn,
               beforeHooks |-> nb, afterHooks |-> na, k |-> 1,
               promise |-> "none", thrown |-> NoError, hookThrew |-> FALSE,
               result |-> [state |-> "pending", error |-> NoError]]
    /\ itrace = <<>>
    /\ IdleScene /\ IdleRun /\ IdleTime /\ IdleMeasure /\ IdleSummary /\ IdleRemote /\ IdleNormalize /\ IdleJobs /\ IdleHost

Reject(f, e) == [f EXCEPT !.pc = "done", !.result = [state |-> "rejected", error |-> e]]

\* await runFns(this.beforeHooks): the hooks one after the other, each awaited;
\* a hook that throws ends invoke, outside its try block.
invokeBeforeHook ==
    /\ inv.pc = "before" /\ inv.k <= inv.beforeHooks
    /\ itrace' = Append(itrace, Event("before", inv.k, Settled(inv)))
    /\ \E throws \in BOOLEAN :
        inv' = IF throws THEN Reject([inv EXCEPT !.hookThrew = TRUE], HookError("before", inv.k))
               ELSE [inv EXCEPT !.k = @ + 1]
    /\ UNCHANGED <<sceneVars, runVars, timeVars, measureVars, summaryVars, remoteVars, normVars, jobVars, hostVars>>

\* invoke drops the finally block: a failed workload ends invoke at once.
invokeTry_noFinally(f, thrown) ==
    IF thrown # NoError THEN Reject(f, thrown)
    ELSE [f EXCEPT !.pc = "after", !.k = 1, !.thrown = thrown]

\* try { return ... } finally { ... }: however the try block ends, the finally
\* block runs next; what was thrown is kept until it is done.
invokeTry(f, thrown) ==
    [f EXCEPT !.pc = "after", !.k = 1, !.thrown = thrown]

\* this.fn() is called.  A synchronous workload returns or throws here; an
\* asynchronous one returns a pending promise, which core's invoke awaits
\* inside the try block and packages/core's invoke returns as it is.
invokeCall ==
    /\ inv.pc = "before" /\ inv.k > inv.beforeHooks
    /\ itrace' = Append(itrace, Event("fn", 0, Settled(inv)))
    /\ inv' = IF ~inv.fn.promise
              THEN invokeTry(inv, IF inv.fn.fails THEN WorkloadError ELSE NoError)
              ELSE IF inv.variant = "core"
              THEN [inv EXCEPT !.pc = "awaitFn", !.promise = "pending"]
              ELSE invokeTry([inv EXCEPT !.promise = "pending"], NoError)
    /\ UNCHANGED <<sceneVars, runVars, timeVars, measureVars, summaryVars, remoteVars, normVars, jobVars, hostVars>>

\* The promise returned by an asynchronous workload settles.
WorkloadSettles ==
    /\ inv.pc # "idle" /\ inv.promise = "pending"
    /\ inv' = [inv EXCEPT !.promise = IF inv.fn.fails THEN "rejected" ELSE "fulfilled"]
    /\ itrace' = Append(itrace, Event("settle", 0, TRUE))
    /\ UNCHANGED <<sceneVars, runVars, timeVars, measureVars, summaryVars, remoteVars, normVars, jobVars, hostVars>>

\* core: `await this.fn()` resumes once the promise has settled.
invokeAwaitFn ==
    /\ inv.pc = "awaitFn" /\ Settled(inv)
    /\ inv' = invokeTry(inv, IF inv.promise = "rejected" THEN WorkloadError ELSE NoError)
    /\ UNCHANGED <<itrace, sceneVars, runVars, timeVars, measureVars, summaryVars, remoteVars, normVars, jobVars, hostVars>>

\* finally { await runFns(this.afterHooks) }: a hook that throws replaces what
\* the try block threw.
invokeAfterHook ==
    /\ inv.pc = "after" /\ inv.k <= inv.afterHooks
    /\ itrace' = Append(itrace, Event("after", inv.k, Settled(inv)))
    /\ \E throws \in BOOLEAN :
        inv' = IF throws THEN Reject([inv EXCEPT !.hookThrew = TRUE], HookError("after", inv.k))
               ELSE [inv EXCEPT !.k = @ + 1]
    /\ UNCHANGED <<sceneVars, runVars, timeVars, measureVars, summaryVars, remoteVars, normVars, jobVars, hostVars>>

\* The finally block is done: invoke throws what the try block threw, or
\* returns its value.  A returned promise is adopted: invoke's own promise
\* settles as that promise does.
invokeReturn ==
    /\ inv.pc = "after" /\ inv.k > inv.afterHooks
    /\ inv' = IF inv.thrown # NoError THEN Reject(inv, inv.thrown)
              ELSE IF inv.variant = "packages" /\ inv.fn.promise
              THEN [inv EXCEPT !.pc = "adopt"]
              ELSE [inv EXCEPT !.pc = "done", !.result = [state |-> "fulfilled", error |-> NoError]]
    /\ UNCHANGED <<itrace, sceneVars, runVars, timeVars, measureVars, summaryVars, remoteVars, normVars, jobVars, hostVars>>

invokeAdopt ==
    /\ inv.pc = "adopt" /\ Settled(inv)
    /\ inv' = IF inv.promise = "rejected" THEN Reject(inv, WorkloadError)
              ELSE [inv EXCEPT !.pc = "done", !.result = [state |-> "fulfilled", error |-> NoError]]
    /\ UNCHANGED <<itrace, sceneVars, runVars, timeVars, measureVars, summaryVars, remoteVars, normVars, jobVars, hostVars>>

invoke ==
    \/ invokeBeforeHook \/ invokeCall \/ invokeAwaitFn
    \/ invokeAfterHook \/ invokeReturn \/ invokeAdopt

NextInvoke == invoke \/ WorkloadSettles

SpecInvoke == InitInvoke /\ [][NextInvoke]_vars

\* The hooks of one kind that invoke has started, in the order it started them.
HooksRun(kind) ==
    LET evs == SelectSeq(itrace, LAMBDA e : e.ev = kind)
    IN  [i \in DOMAIN evs |-> evs[i].k]

\* The calls invoke has made so far, without the promise's own settling.
CallOrder ==
    LET evs == SelectSeq(itrace, LAMBDA e : e.ev # "settle")
    IN  [i \in DOMAIN evs |-> evs[i].ev]

Upto(n) == [i \in 1..n |-> i]

InvokeDone == inv.pc = "done"

\* C6: invoke runs all before-iteration hooks in registration order, then the
\* workload, then all after-iteration hooks in registration order, and returns the
\* workload's result; for an asynchronous workload no after-hook starts before the
\* promise the workload returned has settled.
C6_InvokeOrder ==
    /\ (InvokeDone /\ inv.result.state = "fulfilled") =>
        /\ HooksRun("before") = Upto(inv.beforeHooks)
        /\ HooksRun("after") = Upto(inv.afterHooks)
        /\ CallOrder = [i \in 1..(inv.beforeHooks + 1 + inv.afterHooks) |->
                            IF i <= inv.beforeHooks THEN "before"
                            ELSE IF i = inv.beforeHooks + 1 THEN "fn" ELSE "after"]
        /\ ~inv.fn.fails
    /\ \A i \in DOMAIN itrace : itrace[i].ev = "after" => itrace[i].settled

\* The workload was called and failed: it threw, or its promise rejects.
WorkloadFailed == inv.pc # "idle" /\ inv.fn.fails /\ \E i \in DOMAIN itrace : itrace[i].ev = "fn"

\* C7: when the workload throws (or rejects) during invoke, every after-iteration
\* hook still runs exactly once, in registration order, and the workload's error is
\* then propagated to the caller.  (Stated for after-hooks that complete: a hook
\* that throws ends runFns and its error is the one invoke throws.)
C7_AfterHooksOnThrow ==
    (InvokeDone /\ WorkloadFailed /\ ~inv.hookThrew) =>
        /\ HooksRun("after") = Upto(inv.afterHooks)
        /\ inv.result = [state |-> "rejected", error |-> WorkloadError]

C7_Witness ==
    /\ InvokeDone /\ WorkloadFailed /\ ~inv.hookThrew
    /\ inv.afterHooks = MaxHooks
    /\ HooksRun("after") = Upto(MaxHooks)
    /\ inv.result.error = WorkloadError

(***************************************************************************)
(* Parameters.  A raw value is a primitive: its type and its string form.  *)
(* A parameter's values are given as an iterable of raw values or as an    *)
(* object displayName -> raw value.                                        *)
(***************************************************************************)
Num(text) == [type |-> "number", text |-> text]
Str(text) == [type |-> "string", text |-> text]

BUILTIN_VARS == {"Name", "Builder", "Executor"}

\* The display name of a primitive is its string form.
toDisplayName(v) == v.text

\* getFromIter: each value is its own name
getFromIter(values) == [i \in DOMAIN values |-> <<values[i], values[i]>>]

\* getFromObject: Object.entries, whose keys are strings
getFromObject(values) == [i \in DOMAIN values |-> <<Str(values[i][1]), values[i][2]>>]

ParamEntry(key, form, values) == [key |-> key, form |-> form, values |-> values]

\* The first display name of `names` that an earlier one equals, or 0.
FirstConflict(names) ==
    LET dup == {i \in DOMAIN names : \E j \in 1..(i - 1) : names[j] = names[i]}
    IN  IF dup = {} THEN 0 ELSE CHOOSE i \in dup : \A j \in dup : i <= j

\* resolveParams, one parameter: the error the loop body throws for it, if any.
ParamProblem(entry) ==
    LET items == IF entry.form = "iter" THEN getFromIter(entry.values)
                 ELSE getFromObject(entry.values)
        names == [i \in DOMAIN items |-> toDisplayName(items[i][1])]
    IN  IF entry.key \in BUILTIN_VARS THEN "is a builtin variable"
        ELSE IF FirstConflict(names) # 0 THEN "Parameter display name conflict"
        ELSE IF Len(items) = 0 THEN "must have a value"
        ELSE ""

\* The number of a parameter key that is an array index, or -1.  The keys of
\* the model have one character.
KeyNumber(key) ==
    IF \E d \in DOMAIN Digits : Digits[d] = key
    THEN (CHOOSE d \in DOMAIN Digits : Digits[d] = key) - 1 ELSE -1

RECURSIVE KeysByNumber(_, _)
KeysByNumber(set, entries) ==
    IF set = {} THEN <<>>
    ELSE LET m == CHOOSE e \in set : \A o \in set : KeyNumber(entries[e].key) <= KeyNumber(entries[o].key)
         IN  <<entries[m]>> \o KeysByNumber(set \ {m}, entries)

\* Object.entries(params): the keys that are array indices in ascending order,
\* then the other keys in the order of their insertion
Object_entries(entries) ==
    KeysByNumber({i \in DOMAIN entries : KeyNumber(entries[i].key) >= 0}, entries)
        \o SelectSeq(entries, LAMBDA e : KeyNumber(e.key) < 0)

\* resolveParams: [cpSrc, names], or the first error in the order of the checks.
resolveParams(params) ==
    LET es == Object_entries(params.entries)
        bad == {i \in DOMAIN es : ParamProblem(es[i]) # ""}
        first == CHOOSE i \in bad : \A j \in bad : i <= j
        items(e) == IF e.form = "iter" THEN getFromIter(e.values) ELSE getFromObject(e.values)
    IN  IF params.symbolKeys > 0
        THEN Throw(Error("Only string keys are allowed in param", "resolveParams"))
        ELSE IF bad # {}
        THEN Throw(Error(ParamProblem(es[first]), "resolveParams"))
        ELSE Ok([params |-> [i \in DOMAIN es |->
                        [key |-> es[i].key,
                         values |-> [k \in DOMAIN es[i].values |->
                                        items(es[i])[k][2]]]],
                 paramNames |-> [i \in DOMAIN es |->
                        [key |-> es[i].key,
                         values |-> [k \in DOMAIN es[i].values |->
                                        toDisplayName(items(es[i])[k][1])]]]])

\* normalizeSuite for a suite given as an object
normalizeSuite(input) ==
    LET r == resolveParams(input.params)
    IN  IF r.ok
        THEN Ok([params |-> r.value.params, paramNames |-> r.value.paramNames,
                 baseline |-> input.baseline])
        ELSE r

RECURSIVE Flatten(_)
Flatten(seqs) == IF seqs = <<>> THEN <<>> ELSE Head(seqs) \o Flatten(Tail(seqs))

\* cartesianObject: every combination of one value per key, as a sequence of
\* <<key, value>> pairs; the first key advances slowest.
RECURSIVE cartesianObject(_)
cartesianObject(entries) ==
    IF entries = <<>> THEN << <<>> >>
    ELSE LET e == Head(entries)
             rest == cartesianObject(Tail(entries))
         IN  Flatten([i \in DOMAIN e.values |->
                        [j \in DOMAIN rest |-> << <<e.key, e.values[i]>> >> \o rest[j]]])

NoBaseline == <<>>

IndexOf(seq, v) ==
    LET hit == {i \in DOMAIN seq : seq[i] = v}
    IN  IF hit = {} THEN 0 ELSE CHOOSE i \in hit : \A j \in hit : i <= j

\* The value is looked up among the display names of the parameter.
convertBaseline_byDisplayName(ns) ==
    IF ns.baseline = NoBaseline THEN Ok(NoBaseline)
    ELSE LET type == ns.baseline[1].type
             value == ns.baseline[1].value
             i == IndexOf([k \in DOMAIN ns.params |-> ns.params[k].key], type)
         IN  IF type \in BUILTIN_VARS
             THEN IF value.type # "string"
                  THEN Throw(Error("Value of baseline must be a string", "convertBaseline"))
                  ELSE Ok(<<[type |-> type, value |-> value.text]>>)
             ELSE IF i = 0
             THEN Throw(Error("Baseline does not in params", "convertBaseline"))
             ELSE IF value.type = "string" /\ IndexOf(ns.paramNames[i].values, value.text) # 0
             THEN Ok(<<[type |-> type, value |-> value.text]>>)
             ELSE Throw(Error("Baseline value does not in params", "convertBaseline"))

\* convertBaseline.  The baseline is <<>> (not given) or << [type, value] >>.
convertBaseline(ns) ==
    IF ns.baseline = NoBaseline THEN Ok(NoBaseline)
    ELSE LET type == ns.baseline[1].type
             value == ns.baseline[1].value
             i == IndexOf([k \in DOMAIN ns.params |-> ns.params[k].key], type)
         IN  IF type \in BUILTIN_VARS
             THEN IF value.type # "string"
                  THEN Throw(Error("Value of baseline must be a string", "convertBaseline"))
                  ELSE Ok(<<[type |-> type, value |-> value.text]>>)
             ELSE IF i = 0
             THEN Throw(Error("Baseline does not in params", "convertBaseline"))
             ELSE IF IndexOf(ns.params[i].values, value) # 0
             THEN Ok(<<[type |-> type,
                        value |-> ns.paramNames[i].values[IndexOf(ns.params[i].values, value)]]>>)
             ELSE Throw(Error("Baseline value does not in params", "convertBaseline"))

(***************************************************************************)
(* RunSuiteError                                                           *)
(***************************************************************************)
RunSuiteError(message, cause, params, ps) ==
    [type |-> "RunSuiteError", message |-> message, origin |-> "runSuite",
     cause |-> <<cause>>, params |-> params, paramStr |-> ps]

\* RunSuiteError.fromScene: paramStr is the JSON of key -> display name
fromScene(params, cause) ==
    RunSuiteError("Error occurred in scene",
                  cause, <<params>>,
                  << [i \in DOMAIN params |-> <<params[i][1], toDisplayName(params[i][2])>>] >>)

(***************************************************************************)
(* ProfilingContext                                                        *)
(***************************************************************************)
\* obj[k] = v on a JS object kept as its entries in insertion order
SetKey(obj, k, v) ==
    IF \E i \in DOMAIN obj : obj[i][1] = k
    THEN [i \in DOMAIN obj |-> IF obj[i][1] = k THEN <<k, v>> ELSE obj[i]]
    ELSE Append(obj, <<k, v>>)

Keys(obj) == {obj[i][1] : i \in DOMAIN obj}

\* new ProfilingContext(suite, profilers, options)
ProfilingContext(pattern) ==
    [scenes |-> <<>>, notes |-> <<>>, meta |-> <<>>,
     pattern |-> pattern, hasRun |-> FALSE, caseIndex |-> 0,
     workingParams |-> <<>>]

defineMetric(c, description) ==
    [c EXCEPT !.meta = SetKey(@, description.key, description)]

note(c, type, text, case_) ==
    [c EXCEPT !.notes = Append(@, [type |-> type, text |-> text, caseId |-> case_.id])]

\* The context records the parameters of the scene it works on.
setWorkingParams(c, params) == [c EXCEPT !.workingParams = <<params>>]

\* run() without its guard
run_noGuard(c) == Ok([c EXCEPT !.hasRun = TRUE])

\* run(), up to its first await: the guard and the flag
run(c) ==
    IF c.hasRun THEN Throw(Error("A ProfilingContext can only be run once.", "run"))
    ELSE Ok([c EXCEPT !.hasRun = TRUE])

\* The id is taken without advancing the counter.
assignId_noIncrement(c, case_) ==
    [ctx |-> c, case_ |-> [case_ EXCEPT !.id = c.caseIndex]]

\* case_.id = this.caseIndex++
assignId(c, case_) ==
    [ctx |-> [c EXCEPT !.caseIndex = @ + 1], case_ |-> [case_ EXCEPT !.id = c.caseIndex]]

\* The metrics of an asynchronous case are dropped.
recordCase_syncOnly(c, case_, metrics) ==
    IF case_.isAsync THEN c
    ELSE [c EXCEPT !.scenes[Len(c.scenes)] = SetKey(@, case_.name, metrics)]

\* results[case_.name] = metrics, where results is the last element of this.scenes
recordCase(c, case_, metrics) ==
    [c EXCEPT !.scenes[Len(c.scenes)] = SetKey(@, case_.name, metrics)]

(***************************************************************************)
(* The profilers.  resolveProfilers puts the DefaultEventLogger first,     *)
(* which has onScene and onCase only; the suite's profilers follow and     *)
(* have the four hooks.                                                    *)
(***************************************************************************)
Profilers == 1..(NumProfilers + 1)
DefaultEventLogger == 1
\* The TimeProfiler is the first profiler after the DefaultEventLogger and the
\* validator.
TimeProfiler == 2

\* The validator is left out of the stack.
resolveProfilers_noValidator(s) ==
    <<"DefaultEventLogger", "TimeProfiler">> \o [i \in 1..(NumProfilers - 1) |-> "Profiler"]

\* resolveProfilers: the DefaultEventLogger, the ExecutionValidator when the
\* suite has `validate`, the TimeProfiler (the suites modelled have `timing`),
\* the profilers of the suite
resolveProfilers(s) ==
    <<"DefaultEventLogger">>
        \o (IF s.validate THEN <<"ExecutionValidator">> ELSE <<>>)
        \o <<"TimeProfiler">> \o [i \in 1..(NumProfilers - 1) |-> "Profiler"]

\* The ExecutionValidator has onStart only, and is the first profiler that has
\* it: the DefaultEventLogger has none.
HasValidator(s) == \E i \in DOMAIN resolveProfilers(s) : resolveProfilers(s)[i] = "ExecutionValidator"

Defines(p, name) == p # DefaultEventLogger \/ name \in {"onScene", "onCase"}

\* runHooks: the next profiler after k that has the hook; past the last
\* profiler when there is none.
NextProfiler(name, k) ==
    LET later == {p \in Profilers : p > k /\ Defines(p, name)}
    IN  IF later = {} THEN NumProfilers + 2 ELSE CHOOSE p \in later : \A q \in later : p <= q

(***************************************************************************)
(* The suite's setup function, as the calls it makes on the scene.         *)
(***************************************************************************)
Op(op, name) == [op |-> op, name |-> name]

SetupScripts == {
    <<>>,
    <<Op("bench", <<"a">>), Op("benchAsync", <<"b">>)>>,
    <<Op("teardown", <<>>), Op("bench", <<"a", "b">>), Op("teardown", <<>>)>>,
    <<Op("beforeIteration", <<>>), Op("benchAsync", <<"b">>), Op("afterIteration", <<>>)>>,
    <<Op("teardown", <<>>), Op("throw", <<>>)>>,
    <<Op("teardown", <<>>), Op("bench", <<"a">>), Op("bench", <<"a">>)>>,
    <<Op("bench", <<" ">>)>> }

\* setup(scene): the calls in order; a call that throws ends setup.  The scene
\* is returned as setup left it.
RECURSIVE runSetup(_, _)
runSetup(scene, script) ==
    IF script = <<>> THEN [ok |-> TRUE, scene |-> scene, error |-> NoError]
    ELSE LET o == Head(script) IN
         CASE o.op = "throw" ->
                [ok |-> FALSE, scene |-> scene, error |-> Error("setup failed", "setup")]
           [] o.op = "teardown" -> runSetup(teardown(scene, Len(scene.teardownHooks) + 1), Tail(script))
           [] o.op = "beforeIteration" ->
                runSetup(beforeIteration(scene, Len(scene.beforeIterHooks) + 1), Tail(script))
           [] o.op = "afterIteration" ->
                runSetup(afterIteration(scene, Len(scene.afterIterHooks) + 1), Tail(script))
           [] OTHER ->
                LET r == IF o.op = "bench" THEN bench(scene, o.name, AnyFn)
                         ELSE benchAsync(scene, o.name, AnyFn)
                IN  IF r.ok THEN runSetup(r.value, Tail(script))
                    ELSE [ok |-> FALSE, scene |-> scene, error |-> r.error]

\* The names setup hands to bench/benchAsync that the include pattern matches.
ExpectedCases(script, pattern) ==
    LET regs == SelectSeq(script, LAMBDA o : o.op \in {"bench", "benchAsync"} /\ test(pattern, o.name))
    IN  [i \in DOMAIN regs |-> regs[i].name]

(***************************************************************************)
(* Spec: runSuite.  Every await of runSuite, run, runScene, runHooks and   *)
(* runFns is a step of the one driver task.                                *)
(***************************************************************************)
ParamDefs == {
    [entries |-> <<>>, symbolKeys |-> 0],
    [entries |-> <<ParamEntry("x", "iter", <<Num("1"), Num("2")>>)>>, symbolKeys |-> 0],
    [entries |-> <<ParamEntry("x", "iter", <<Num("1"), Num("2")>>),
                   ParamEntry("y", "object", << <<"p", Str("v")>> >>)>>, symbolKeys |-> 0],
    [entries |-> <<ParamEntry("Name", "iter", <<Num("1")>>)>>, symbolKeys |-> 0],
    [entries |-> <<ParamEntry("x", "iter", <<Num("1"), Str("1")>>)>>, symbolKeys |-> 0],
    [entries |-> <<ParamEntry("x", "iter", <<>>)>>, symbolKeys |-> 0],
    [entries |-> <<>>, symbolKeys |-> 1] }

Baselines == {
    NoBaseline,
    <<[type |-> "x", value |-> Num("2")]>>,
    <<[type |-> "Name", value |-> Num("1")]>> }

NoScene == Scene(<<>>, RE_ANY)

Pending     == [state |-> "pending", error |-> NoError, result |-> <<>>]
Rejected(e) == [state |-> "rejected", error |-> e, result |-> <<>>]
Resolved(r) == [state |-> "resolved", error |-> NoError, result |-> <<r>>]

Init ==
    /\ \E params \in ParamDefs, baseline \in Baselines, pattern \in {RE_ANY, "a"} :
        suite = [params |-> params, baseline |-> baseline, pattern |-> pattern,
                 validate |-> FALSE]
    /\ pc = "runSuite"
    /\ ctx = [hasRun |-> FALSE]
    /\ frame = [k |-> 0]
    /\ outcome = Pending
    /\ trace = <<>>
    /\ sceneLog = <<>>
    /\ rerun = <<>>
    /\ IdleScene /\ IdleInvoke /\ IdleTime /\ IdleMeasure /\ IdleSummary /\ IdleRemote /\ IdleNormalize /\ IdleJobs /\ IdleHost

Emit(ev, p, id) ==
    Append(trace, [ev |-> ev, p |-> p, scene |-> frame.comb, case |-> frame.case, id |-> id])

ProfilerError(name) == Error("profiler failed", name)

\* The catch block of runSuite; wp is context?.[kWorkingParams]
runSuiteCatch(wp, e) ==
    IF wp # <<>> THEN fromScene(wp[1], e)
    ELSE RunSuiteError("Error occurred when running suite.", e, <<>>, <<>>)

\* runSuite up to its first await: normalizeSuite, outside the try block; then
\* convertBaseline, resolveProfilers and the context, inside it.
runSuite_begin ==
    /\ pc = "runSuite"
    /\ LET n == normalizeSuite(suite) IN
        IF ~n.ok
        THEN /\ pc' = "done"
             /\ outcome' = Rejected(n.error)
             /\ UNCHANGED <<ctx, frame>>
        ELSE LET b == convertBaseline(n.value) IN
             IF ~b.ok
             THEN /\ pc' = "done"
                  /\ outcome' = Rejected(runSuiteCatch(<<>>, b.error))
                  /\ UNCHANGED <<ctx, frame>>
             ELSE /\ pc' = "beforeAll"
                  /\ ctx' = ProfilingContext(suite.pattern)
                  /\ frame' = [norm |-> n.value, baseline |-> b.value,
                               combs |-> cartesianObject(n.value.params), comb |-> 0,
                               scene |-> NoScene, case |-> 0, metrics |-> <<>>,
                               k |-> 0, thrown |-> NoError, validated |-> <<>>]
                  /\ UNCHANGED outcome
    /\ UNCHANGED <<suite, trace, sceneLog, rerun, sceneVars, invokeVars, timeVars, measureVars, summaryVars, remoteVars, normVars, jobVars, hostVars>>

\* await beforeAll?.(); then context.run() is called
runSuite_beforeAll ==
    /\ pc = "beforeAll"
    /\ trace' = Emit("beforeAll", 0, NoId)
    /\ \E throws \in BOOLEAN :
        IF throws
        THEN /\ pc' = "done"
             /\ outcome' = Rejected(runSuiteCatch(ctx.workingParams, Error("hook failed", "beforeAll")))
             /\ UNCHANGED <<ctx, frame>>
        ELSE LET r == run(ctx) IN
             /\ pc' = IF ~r.ok THEN "afterAll"
                      ELSE IF HasValidator(suite) THEN "validate" ELSE "onStart"
             /\ ctx' = IF r.ok THEN r.value ELSE ctx
             /\ frame' = IF r.ok THEN [frame EXCEPT !.k = NextProfiler("onStart", 0)]
                         ELSE [frame EXCEPT !.thrown = r.error]
             /\ UNCHANGED outcome
    /\ UNCHANGED <<suite, sceneLog, rerun, sceneVars, invokeVars, timeVars, measureVars, summaryVars, remoteVars, normVars, jobVars, hostVars>>

\* A later call of run() on the same context, by whoever holds it (a profiler
\* is handed the context in every hook).
RunAgain ==
    /\ pc \in {"onStart", "runScene", "onScene", "onCase", "teardown", "onFinish", "afterAll", "done"}
    /\ ctx.hasRun
    /\ Len(rerun) < MaxReruns
    /\ LET r == run(ctx) IN
        IF r.ok
        THEN /\ rerun' = Append(rerun, "started")
             /\ ctx' = r.value
             /\ pc' = "onStart"
             /\ frame' = [frame EXCEPT !.k = NextProfiler("onStart", 0)]
        ELSE /\ rerun' = Append(rerun, r.error.message)
             /\ UNCHANGED <<ctx, pc, frame>>
    /\ UNCHANGED <<suite, outcome, trace, sceneLog, sceneVars, invokeVars, timeVars, measureVars, summaryVars, remoteVars, normVars, jobVars, hostVars>>

\* runHooks("onStart"): one profiler's onStart, awaited.  A profiler of the suite
\* describes its metric here.
run_onStart ==
    /\ pc = "onStart" /\ frame.k \in Profilers
    /\ trace' = Emit("onStart", frame.k, NoId)
    /\ \E throws \in BOOLEAN :
        IF throws
        THEN /\ pc' = "afterAll"
             /\ frame' = [frame EXCEPT !.thrown = ProfilerError("onStart")]
             /\ UNCHANGED ctx
        ELSE /\ ctx' = defineMetric(ctx, [key |-> "time", by |-> frame.k])
             /\ frame' = [frame EXCEPT !.k = NextProfiler("onStart", frame.k)]
             /\ UNCHANGED pc
    /\ UNCHANGED <<suite, outcome, sceneLog, rerun, sceneVars, invokeVars, timeVars, measureVars, summaryVars, remoteVars, normVars, jobVars, hostVars>>

\* runHooks("onStart") is done: the loop over cartesianObject(params) begins.
run_onStartDone ==
    /\ pc = "onStart" /\ frame.k \notin Profilers
    /\ pc' = IF Len(frame.combs) > 0 THEN "runScene" ELSE "onFinish"
    /\ frame' = [frame EXCEPT !.comb = 1, !.k = NextProfiler("onFinish", 0)]
    /\ UNCHANGED <<suite, ctx, outcome, trace, sceneLog, rerun, sceneVars, invokeVars, timeVars, measureVars, summaryVars, remoteVars, normVars, jobVars, hostVars>>

\* runScene: new Scene(params, this); await this.suite.setup(scene), outside the
\* try block.
runScene_setup ==
    /\ pc = "runScene"
    /\ \E script \in SetupScripts :
        LET params == frame.combs[frame.comb]
            r == runSetup(Scene(params, ctx.pattern), script)
        IN  /\ trace' = Emit("setup", 0, NoId)
            /\ sceneLog' = Append(sceneLog,
                    [params |-> params, cases |-> ExpectedCases(script, ctx.pattern),
                     teardowns |-> Len(r.scene.teardownHooks), setupOk |-> r.ok])
            /\ ctx' = setWorkingParams(ctx, params)
            /\ pc' = IF r.ok THEN "onScene" ELSE "afterAll"
            /\ frame' = [frame EXCEPT !.scene = r.scene, !.case = 0,
                                      !.k = NextProfiler("onScene", 0),
                                      !.thrown = r.error]
    /\ UNCHANGED <<suite, outcome, rerun, sceneVars, invokeVars, timeVars, measureVars, summaryVars, remoteVars, normVars, jobVars, hostVars>>

\* try { await this.runHooks("onScene", scene) ... } finally { teardown }
runScene_onScene ==
    /\ pc = "onScene" /\ frame.k \in Profilers
    /\ trace' = Emit("onScene", frame.k, NoId)
    /\ \E throws \in BOOLEAN :
        IF throws
        THEN /\ pc' = "teardown"
             /\ frame' = [frame EXCEPT !.thrown = ProfilerError("onScene"), !.k = 1]
        ELSE /\ frame' = [frame EXCEPT !.k = NextProfiler("onScene", frame.k)]
             /\ UNCHANGED pc
    /\ UNCHANGED <<suite, ctx, outcome, sceneLog, rerun, sceneVars, invokeVars, timeVars, measureVars, summaryVars, remoteVars, normVars, jobVars, hostVars>>

\* The head of the loop over scene.cases: the next case gets its id and an
\* empty metrics record; after the last case the finally block runs.
EnterCase(c, f, i) ==
    IF i > Len(f.scene.cases)
    THEN [pc |-> "teardown", ctx |-> c, frame |-> [f EXCEPT !.k = 1, !.case = 0]]
    ELSE LET a == assignId(c, f.scene.cases[i])
         IN  [pc |-> "onCase", ctx |-> a.ctx,
              frame |-> [f EXCEPT !.scene.cases[i] = a.case_, !.case = i,
                                  !.metrics = <<>>, !.k = NextProfiler("onCase", 0)]]

\* runHooks("onScene") is done: this.scenes.push(results), then the cases.
runScene_onSceneDone ==
    /\ pc = "onScene" /\ frame.k \notin Profilers
    /\ LET n == EnterCase([ctx EXCEPT !.scenes = Append(@, <<>>)], frame, 1)
       IN  pc' = n.pc /\ ctx' = n.ctx /\ frame' = n.frame
    /\ UNCHANGED <<suite, outcome, trace, sceneLog, rerun, sceneVars, invokeVars, timeVars, measureVars, summaryVars, remoteVars, normVars, jobVars, hostVars>>

\* runHooks("onCase", case_, metrics): one profiler's onCase, awaited.  A
\* profiler of the suite writes its metric and may add a note on the case.
runScene_onCase ==
    /\ pc = "onCase" /\ frame.k \in Profilers
    /\ trace' = Emit("onCase", frame.k, frame.scene.cases[frame.case].id)
    /\ \E throws \in BOOLEAN :
        IF throws
        THEN /\ pc' = "teardown"
             /\ frame' = [frame EXCEPT !.thrown = ProfilerError("onCase"), !.k = 1]
             /\ UNCHANGED ctx
        ELSE /\ frame' = [frame EXCEPT
                    !.metrics = IF frame.k = DefaultEventLogger THEN @ ELSE SetKey(@, frame.k, 1),
                    !.k = NextProfiler("onCase", frame.k)]
             /\ \E notes \in BOOLEAN :
                    IF notes /\ frame.k # DefaultEventLogger /\ Len(ctx.notes) < MaxNotes
                    THEN ctx' = note(ctx, "warn", "note", frame.scene.cases[frame.case])
                    ELSE ctx' = ctx
             /\ UNCHANGED pc
    /\ UNCHANGED <<suite, outcome, sceneLog, rerun, sceneVars, invokeVars, timeVars, measureVars, summaryVars, remoteVars, normVars, jobVars, hostVars>>

\* runHooks("onCase") is done: results[case_.name] = metrics, then the next case.
runScene_onCaseDone ==
    /\ pc = "onCase" /\ frame.k \notin Profilers
    /\ LET n == EnterCase(recordCase(ctx, frame.scene.cases[frame.case], frame.metrics),
                          frame, frame.case + 1)
       IN  pc' = n.pc /\ ctx' = n.ctx /\ frame' = n.frame
    /\ UNCHANGED <<suite, outcome, trace, sceneLog, rerun, sceneVars, invokeVars, timeVars, measureVars, summaryVars, remoteVars, normVars, jobVars, hostVars>>

\* finally { await runFns(scene.teardownHooks) }: one hook, awaited.  A hook that
\* throws ends runFns, and its error is the one runScene throws.
runScene_teardown ==
    /\ pc = "teardown" /\ frame.k <= Len(frame.scene.teardownHooks)
    /\ trace' = Emit("teardown", frame.k, NoId)
    /\ \E throws \in BOOLEAN :
        IF throws
        THEN /\ pc' = "afterAll"
             /\ frame' = [frame EXCEPT !.thrown = Error("hook failed", "teardown")]
        ELSE /\ frame' = [frame EXCEPT !.k = @ + 1]
             /\ UNCHANGED pc
    /\ UNCHANGED <<suite, ctx, outcome, sceneLog, rerun, sceneVars, invokeVars, timeVars, measureVars, summaryVars, remoteVars, normVars, jobVars, hostVars>>

\* The finally block is done: runScene throws what its try block threw, or
\* returns and the loop of run goes on; after the last scene, onFinish.
runScene_teardownDone ==
    /\ pc = "teardown" /\ frame.k > Len(frame.scene.teardownHooks)
    /\ pc' = IF frame.thrown # NoError THEN "afterAll"
             ELSE IF frame.comb < Len(frame.combs) THEN "runScene" ELSE "onFinish"
    /\ frame' = IF frame.thrown # NoError THEN frame
                ELSE IF frame.comb < Len(frame.combs) THEN [frame EXCEPT !.comb = @ + 1]
                ELSE [frame EXCEPT !.k = NextProfiler("onFinish", 0)]
    /\ UNCHANGED <<suite, ctx, outcome, trace, sceneLog, rerun, sceneVars, invokeVars, timeVars, measureVars, summaryVars, remoteVars, normVars, jobVars, hostVars>>

\* The onFinish hooks are never called.
run_onFinish_skipped ==
    /\ pc = "onFinish" /\ frame.k \in Profilers
    /\ frame' = [frame EXCEPT !.k = NumProfilers + 2]
    /\ UNCHANGED <<suite, pc, ctx, outcome, trace, sceneLog, rerun, sceneVars, invokeVars, timeVars, measureVars, summaryVars, remoteVars, normVars, jobVars, hostVars>>

\* return this.runHooks("onFinish"): one profiler's onFinish, awaited
run_onFinish ==
    /\ pc = "onFinish" /\ frame.k \in Profilers
    /\ trace' = Emit("onFinish", frame.k, NoId)
    /\ \E throws \in BOOLEAN :
        IF throws
        THEN /\ pc' = "afterAll"
             /\ frame' = [frame EXCEPT !.thrown = ProfilerError("onFinish")]
        ELSE /\ frame' = [frame EXCEPT !.k = NextProfiler("onFinish", frame.k)]
             /\ UNCHANGED pc
    /\ UNCHANGED <<suite, ctx, outcome, sceneLog, rerun, sceneVars, invokeVars, timeVars, measureVars, summaryVars, remoteVars, normVars, jobVars, hostVars>>

\* runHooks("onFinish") is done: the promise of run() is fulfilled.
run_onFinishDone ==
    /\ pc = "onFinish" /\ frame.k \notin Profilers
    /\ pc' = "afterAll"
    /\ UNCHANGED <<suite, ctx, frame, outcome, trace, sceneLog, rerun, sceneVars, invokeVars, timeVars, measureVars, summaryVars, remoteVars, normVars, jobVars, hostVars>>

\* The result record runSuite returns
RunSuiteResult(c, f) ==
    [scenes |-> c.scenes, notes |-> c.notes, meta |-> c.meta,
     baseline |-> f.baseline, paramDef |-> f.norm.paramNames]

\* context.run().then(afterAll): afterAll is skipped when run() has failed.
runSuite_afterAll_onSuccessOnly ==
    /\ pc = "afterAll"
    /\ trace' = IF frame.thrown = NoError THEN Emit("afterAll", 0, NoId) ELSE trace
    /\ \E throws \in BOOLEAN :
        LET e == IF frame.thrown # NoError THEN frame.thrown
                 ELSE IF throws THEN Error("hook failed", "afterAll") ELSE NoError
        IN  outcome' = IF e # NoError THEN Rejected(runSuiteCatch(ctx.workingParams, e))
                       ELSE Resolved(RunSuiteResult(ctx, frame))
    /\ pc' = "done"
    /\ UNCHANGED <<suite, ctx, frame, sceneLog, rerun, sceneVars, invokeVars, timeVars, measureVars, summaryVars, remoteVars, normVars, jobVars, hostVars>>

\* await context.run().finally(afterAll): afterAll runs once run() has settled,
\* either way; if it throws, its error replaces that of run().  Then runSuite
\* returns the result, or its catch block wraps the error.
runSuite_afterAll ==
    /\ pc = "afterAll"
    /\ trace' = Emit("afterAll", 0, NoId)
    /\ \E throws \in BOOLEAN :
        LET e == IF throws THEN Error("hook failed", "afterAll") ELSE frame.thrown
        IN  outcome' = IF e # NoError THEN Rejected(runSuiteCatch(ctx.workingParams, e))
                       ELSE Resolved(RunSuiteResult(ctx, frame))
    /\ pc' = "done"
    /\ UNCHANGED <<suite, ctx, frame, sceneLog, rerun, sceneVars, invokeVars, timeVars, measureVars, summaryVars, remoteVars, normVars, jobVars, hostVars>>

Next ==
    \/ runSuite_begin \/ runSuite_beforeAll \/ RunAgain
    \/ run_onStart \/ run_onStartDone
    \/ runScene_setup
    \/ runScene_onScene \/ runScene_onSceneDone
    \/ runScene_onCase \/ runScene_onCaseDone
    \/ runScene_teardown \/ runScene_teardownDone
    \/ run_onFinish \/ run_onFinishDone
    \/ runSuite_afterAll

Spec == Init /\ [][Next]_vars

(***************************************************************************)
(* Properties of the driver                                                *)
(***************************************************************************)
EventsOf(ev, p) == {i \in DOMAIN trace : trace[i].ev = ev /\ trace[i].p = p}
Events(evs)     == {i \in DOMAIN trace : trace[i].ev \in evs}

HasContext  == "caseIndex" \in DOMAIN ctx
RunSettled  == HasContext /\ ctx.hasRun /\ pc \in {"afterAll", "done"}
\* The promise of run() was fulfilled.
RunFulfilled == RunSettled /\ frame.thrown = NoError

\* C1: in every run, for every profiler, onStart is called exactly once and before
\* any onScene (or onCase), and onFinish exactly once and after the last onCase.
\* "Exactly once" is of a run that completes and of a profiler that has the hook;
\* in a run that fails no hook is called twice or out of this order.
C1_StartFirstFinishLast ==
    /\ \A p \in Profilers :
        /\ Cardinality(EventsOf("onStart", p)) <= 1
        /\ Cardinality(EventsOf("onFinish", p)) <= 1
        /\ EventsOf("onScene", p) \cup EventsOf("onCase", p) # {} /\ Defines(p, "onStart")
              => EventsOf("onStart", p) # {}
        /\ RunFulfilled =>
              /\ Defines(p, "onStart") => Cardinality(EventsOf("onStart", p)) = 1
              /\ Defines(p, "onFinish") => Cardinality(EventsOf("onFinish", p)) = 1
    /\ \A i \in Events({"onStart"}), j \in Events({"onScene", "onCase", "onFinish"}) : i < j
    /\ \A i \in Events({"onScene", "onCase"}), j \in Events({"onFinish"}) : i < j

C1_Witness ==
    /\ RunFulfilled
    /\ Len(ctx.scenes) = 2
    /\ \A i \in 1..2 : ctx.scenes[i] # <<>>
    /\ \A p \in Profilers \ {DefaultEventLogger} :
        Cardinality(EventsOf("onStart", p)) = 1 /\ Cardinality(EventsOf("onFinish", p)) = 1

\* C2: a call of run() after the first one (during the run, after it finished or
\* after it failed) fails with the "can only be run once" error, calls no
\* profiler hook and no setup, and leaves scenes, notes, meta and the caseId
\* counter as they are.
C2_RunOnlyOnce ==
    [][rerun' # rerun =>
        /\ rerun' = Append(rerun, "A ProfilingContext can only be run once.")
        /\ UNCHANGED <<pc, ctx, frame, trace, sceneLog, outcome>>]_vars

C2_Witness ==
    /\ Len(rerun) = 1
    /\ pc = "onCase"
    /\ ctx.scenes # <<>> /\ ctx.notes # <<>> /\ ctx.meta # <<>> /\ ctx.caseIndex > 1

RECURSIVE Product(_)
Product(entries) ==
    IF entries = <<>> THEN 1 ELSE Len(Head(entries).values) * Product(Tail(entries))

Range(seq) == {seq[i] : i \in DOMAIN seq}

\* C3: after a run, the number of scene results is the size of the cross-product
\* of the parameter definition (1 without parameters), and the keys of scenes[i]
\* are exactly the names of the cases that setup registered, and the pattern did
\* not filter out, for the i-th combination.
C3_ScenesMatchParams ==
    RunFulfilled =>
        /\ Len(ctx.scenes) = Product(suite.params.entries)
        /\ Len(sceneLog) = Len(ctx.scenes)
        /\ \A i \in DOMAIN ctx.scenes :
            /\ Keys(ctx.scenes[i]) = Range(sceneLog[i].cases)
            /\ Len(ctx.scenes[i]) = Len(sceneLog[i].cases)

C3_Witness ==
    /\ RunFulfilled
    /\ Len(suite.params.entries) = 2
    /\ Len(ctx.scenes) = 2
    /\ suite.pattern = "a"
    /\ Keys(ctx.scenes[1]) = {<<"a">>}
    /\ Keys(ctx.scenes[2]) = {<<"a", "b">>}

\* The first onCase call of every case, in the order of the calls.
CasesMeasured == SelectSeq(trace, LAMBDA e : e.ev = "onCase" /\ e.p = DefaultEventLogger)

\* C4: within a run the counter is incremented exactly once per case handed to
\* onCase: the ids are 0, 1, ..., N-1 without gap or repeat, in the order the
\* cases are measured (scene order, then registration order), across all scenes.
C4_CaseIdsContiguous ==
    /\ \A j \in DOMAIN CasesMeasured : CasesMeasured[j].id = j - 1
    /\ \A j, k \in DOMAIN CasesMeasured :
        j < k => \/ CasesMeasured[j].scene < CasesMeasured[k].scene
                 \/ /\ CasesMeasured[j].scene = CasesMeasured[k].scene
                    /\ CasesMeasured[j].case < CasesMeasured[k].case
    /\ \A i \in Events({"onCase"}) :
        \E j \in DOMAIN CasesMeasured :
            /\ CasesMeasured[j].scene = trace[i].scene
            /\ CasesMeasured[j].case = trace[i].case
            /\ CasesMeasured[j].id = trace[i].id
    /\ HasContext =>
        ctx.caseIndex = Len(CasesMeasured)
            + (IF pc = "onCase" /\ frame.k = DefaultEventLogger THEN 1 ELSE 0)

C4_Witness ==
    /\ RunFulfilled
    /\ ctx.caseIndex = 3
    /\ Len(ctx.scenes) = 2
    /\ Len(ctx.scenes[1]) = 2 /\ Len(ctx.scenes[2]) = 1

\* The teardown hooks of scene i that were called, in the order of the calls.
TeardownsRun(i) ==
    LET evs == SelectSeq(trace, LAMBDA e : e.ev = "teardown" /\ e.scene = i)
    IN  [j \in DOMAIN evs |-> evs[j].p]

\* C8: the teardown hooks registered on a scene run exactly once, in registration
\* order, before the next scene is constructed or the run ends, also when setup, a
\* profiler's onScene/onCase, a hook or a workload throws for that scene.  (Stated
\* for teardown hooks that do not throw themselves.)
C8_TeardownUnconditional ==
    \A i \in DOMAIN sceneLog :
        (i < Len(sceneLog) \/ (RunSettled /\ frame.thrown.origin # "teardown"))
            => TeardownsRun(i) = Upto(sceneLog[i].teardowns)

\* C9: afterAll runs exactly once after the profiling run has ended, on success
\* and on failure, before runSuite returns or rejects; never while the run is in
\* progress.
C9_AfterAllOnce ==
    /\ ~RunSettled => Events({"afterAll"}) = {}
    /\ (HasContext /\ ctx.hasRun /\ outcome.state # "pending") =>
            Events({"afterAll"}) = {Len(trace)}

C9_Witness ==
    /\ outcome.state = "rejected"
    /\ HasContext /\ frame.thrown.origin = "onCase"
    /\ Events({"afterAll"}) = {Len(trace)}

\* C10: any exception within runSuite (suite normalisation, baseline resolution,
\* beforeAll, the profiling run, afterAll) makes runSuite reject with a
\* RunSuiteError whose cause is the original error; no other error escapes.
C10_OnlyRunSuiteError ==
    outcome.state = "rejected" =>
        /\ outcome.error.type = "RunSuiteError"
        /\ Len(outcome.error.cause) = 1
        /\ outcome.error.cause[1].type = "Error"


\* Number of value combinations of the parameters after position i.
RECURSIVE Stride(_, _)
Stride(names, i) == IF i >= Len(names) THEN 1 ELSE Len(names[i + 1].values) * Stride(names, i + 1)

\* The display names (as resolveParams gives them in paramNames) of the c-th
\* parameter combination, the first key advancing slowest.
DisplayCoords(norm, c) ==
    [i \in DOMAIN norm.paramNames |->
        <<norm.paramNames[i].key,
          norm.paramNames[i].values[(((c - 1) \div Stride(norm.paramNames, i))
                                        % Len(norm.paramNames[i].values)) + 1]>>]

SceneOrigins == {"setup", "add", "onScene", "onCase", "teardown"}

\* runSuite rejected with the error that was thrown while a scene was in progress.
SceneErrorRaised ==
    /\ pc = "done" /\ outcome.state = "rejected" /\ HasContext
    /\ frame.thrown.origin \in SceneOrigins
    /\ outcome.error.cause = <<frame.thrown>>

\* C11: when setup, a hook, a workload or a profiler's onScene/onCase throws while
\* a scene is in progress, the RunSuiteError of runSuite carries the parameters
\* of that scene, and its paramStr is the JSON of the display name of each
\* parameter of that scene; never those of another scene.
C11_ErrorCarriesSceneCoordinates ==
    SceneErrorRaised =>
        /\ outcome.error.type = "RunSuiteError"
        /\ outcome.error.params = <<frame.combs[frame.comb]>>
        /\ outcome.error.paramStr = <<DisplayCoords(frame.norm, frame.comb)>>


(***************************************************************************)
(* SpecTime: TimeWorker.onCase and the invoker of createInvoker.  Times    *)
(* are whole milliseconds of one clock (performance.now()).  Every call   *)
(* of the workload and of an iteration hook is a step; the hooks and the   *)
(* workload complete, and the logger calls are part of the steps.          *)
(***************************************************************************)
\* A JS number: an integer, or one of the values a division by zero gives.
Number(v)   == [kind |-> "num", v |-> v]
NaN         == [kind |-> "NaN", v |-> 0]
NegInfinity == [kind |-> "-Infinity", v |-> 0]

\* x <= 0 and x > 0 on JS numbers: every comparison with NaN is false
LeZero(x) == x.kind = "-Infinity" \/ (x.kind = "num" /\ x.v <= 0)
GtZero(x) == x.kind = "num" /\ x.v > 0

\* Math.ceil(a / b) for b > 0
CeilDiv(a, b) == IF a % b = 0 THEN a \div b ELSE (a \div b) + 1

\* The options of the suite: <<>> is an option left out.  `iterations` is a
\* number or a duration string, kept as the milliseconds durationFmt.parse gives.
Count(n)    == [kind |-> "number", n |-> n]
Duration(ms) == [kind |-> "duration", n |-> ms]

DefaultWarmup     == 5
DefaultSamples    == 10
DefaultIterations == Duration(1000)

WarmupOptions     == {<<>>, <<0>>, <<1>>}
SamplesOptions    == {<<>>, <<0>>, <<1>>, <<2>>}
IterationsOptions == {<<>>, <<Count(-1)>>, <<Count(0)>>, <<Count(1)>>, <<Count(2)>>, <<Count(3)>>,
                      <<Duration(-2000)>>, <<Duration(0)>>, <<Duration(1)>>, <<Duration(4)>>,
                      <<Duration(6)>>}

\* A duration target is at most MaxPilot calls of the workload long.
MaxPilot == 8

\* A workload by what its calls cost: the first call, and every later one.
TimedWorkloads == {[first |-> 1, later |-> 1], [first |-> 3, later |-> 3],
                   [first |-> 4, later |-> 1], [first |-> 500, later |-> 500]}
\* What a call of an iteration hook costs.
HookCost == 1

\* The iteration hooks of the case: <<before-hooks, after-hooks>>
HookCounts == {<<0, 0>>, <<1, 0>>, <<0, 1>>, <<1, 1>>, <<2, 1>>}

Option(opt, default) == IF opt = <<>> THEN default ELSE opt[1]

\* createInvoker: which of the three functions measures the case
createInvoker(case_) ==
    IF case_.setupHooks # 0 /\ case_.cleanHooks # 0
    THEN IF case_.isAsync THEN "asyncWithSetup" ELSE "syncWithSetup"
    ELSE "noSetup"

\* getIterations: the loop test
\* The loop goes on when the target is met exactly.
KeepPiloting_orEqual(time, targetMS) == time <= targetMS
KeepPiloting(time, targetMS) == time < targetMS

\* getIterations returns the count of the last measurement, unscaled.
estimate_unscaled(count, targetMS, time) == Number(count \div 2)

\* getIterations: Math.ceil(count / 2 * targetMS / time).  time is 0 only when
\* the loop never ran (targetMS <= 0), and then count is 1.
estimate(count, targetMS, time) ==
    IF time = 0 THEN (IF targetMS = 0 THEN NaN ELSE NegInfinity)
    ELSE Number(CeilDiv(count * targetMS, 2 * time))

\* onCase: the two checks, in their order; "" when the options pass
\* A single sample is refused.
checkOptions_offByOne(samples, count) ==
    IF samples <= 1 THEN "The number of samples must be at least 1."
    ELSE IF LeZero(count) THEN "The number of iterations cannot be 0 or negative."
    ELSE ""

checkOptions(samples, count) ==
    IF samples <= 0 THEN "The number of samples must be at least 1."
    ELSE IF LeZero(count) THEN "The number of iterations cannot be 0 or negative."
    ELSE ""

\* The loops of onCase: i < warmup, i < samples
\* The loops run once more.
LoopTest_inclusive(i, n) == i <= n
LoopTest(i, n) == i < n

\* The cost of the next call of the workload
CallCost(t) == IF t.called = 0 THEN t.w.first ELSE t.w.later

NoFrame == [n |-> NaN, k |-> 0, timeUsage |-> 0, start |-> 0, at |-> "", ret |-> ""]

InitTime ==
    /\ \E warmup \in WarmupOptions, samples \in SamplesOptions, iterations \in IterationsOptions,
          isAsync \in BOOLEAN, hooks \in HookCounts, w \in TimedWorkloads :
        /\ Option(iterations, DefaultIterations).kind = "duration"
              => Option(iterations, DefaultIterations).n <= MaxPilot * w.later
        /\ Option(iterations, DefaultIterations).kind = "number" => w.first < 500
        /\ tw = [pc |-> "onCase",
                 config |-> [warmup |-> warmup, samples |-> samples, iterations |-> iterations],
                 case_ |-> [isAsync |-> isAsync, setupHooks |-> hooks[1], cleanHooks |-> hooks[2]],
                 w |-> w, called |-> 0, clock |-> 0,
                 warmup |-> 0, samples |-> 0, iterate |-> "",
                 targetMS |-> 0, pilot |-> 1, time |-> 0, doublings |-> 0, pilots |-> <<>>,
                 count |-> NaN, i |-> 0, values |-> <<>>, hasTime |-> FALSE,
                 it |-> NoFrame, error |-> ""]
    /\ tlog = <<>>
    /\ IdleScene /\ IdleInvoke /\ IdleRun /\ IdleMeasure /\ IdleSummary /\ IdleRemote /\ IdleNormalize /\ IdleJobs /\ IdleHost


TimeEvent(ev, k) == Append(tlog, [ev |-> ev, k |-> k, stage |-> tw.it.ret])

\* iterate(count) is called by the stage `ret`
CallIterate(t, count, ret) ==
    [t EXCEPT !.pc = "iterate",
              !.it = [n |-> count, k |-> 0, timeUsage |-> 0, start |-> t.clock,
                      at |-> "loop", ret |-> ret]]

\* onCase up to getIterations: the options with their defaults, the invoker,
\* and the count when iterations is a number.
onCase_begin ==
    /\ tw.pc = "onCase"
    /\ LET iterations == Option(tw.config.iterations, DefaultIterations)
           t == [tw EXCEPT !.warmup = Option(tw.config.warmup, DefaultWarmup),
                           !.samples = Option(tw.config.samples, DefaultSamples),
                           !.iterate = createInvoker(tw.case_)]
       IN  tw' = IF iterations.kind = "number"
                 THEN [t EXCEPT !.pc = "check", !.count = Number(iterations.n)]
                 ELSE [t EXCEPT !.pc = "pilot", !.targetMS = iterations.n,
                                !.pilot = 1, !.time = 0]
    /\ UNCHANGED <<tlog, sceneVars, invokeVars, runVars, measureVars, summaryVars, remoteVars, normVars, jobVars, hostVars>>

\* getIterations: while (time < targetMS) time = await fn(count); after the loop
\* the estimate is returned.
getIterations_loop ==
    /\ tw.pc = "pilot"
    /\ tw' = IF KeepPiloting(tw.time, tw.targetMS)
             THEN CallIterate(tw, Number(tw.pilot), "pilot")
             ELSE [tw EXCEPT !.pc = "check",
                             !.count = estimate(tw.pilot, tw.targetMS, tw.time)]
    /\ UNCHANGED <<tlog, sceneVars, invokeVars, runVars, measureVars, summaryVars, remoteVars, normVars, jobVars, hostVars>>

\* getIterations: fn(count) has returned; count *= 2
getIterations_measured ==
    /\ tw.pc = "returned" /\ tw.it.ret = "pilot"
    /\ tw' = [tw EXCEPT !.pc = "pilot",
                        !.pilots = Append(@, [count |-> tw.pilot, time |-> tw.time]),
                        !.pilot = @ * 2, !.doublings = @ + 1]
    /\ UNCHANGED <<tlog, sceneVars, invokeVars, runVars, measureVars, summaryVars, remoteVars, normVars, jobVars, hostVars>>

\* onCase: the checks of samples and count
onCase_check ==
    /\ tw.pc = "check"
    /\ LET problem == checkOptions(tw.samples, tw.count)
       IN  tw' = IF problem # "" THEN [tw EXCEPT !.pc = "done", !.error = problem]
                 ELSE [tw EXCEPT !.pc = "warmup", !.i = 0]
    /\ UNCHANGED <<tlog, sceneVars, invokeVars, runVars, measureVars, summaryVars, remoteVars, normVars, jobVars, hostVars>>

\* onCase: for (let i = 0; i < warmup; i++) await iterate(count); after the
\* loop metrics.time = []
onCase_warmup ==
    /\ tw.pc = "warmup"
    /\ tw' = IF LoopTest(tw.i, tw.warmup) THEN CallIterate(tw, tw.count, "warmup")
             ELSE [tw EXCEPT !.pc = "actual", !.i = 0, !.values = <<>>, !.hasTime = TRUE]
    /\ UNCHANGED <<tlog, sceneVars, invokeVars, runVars, measureVars, summaryVars, remoteVars, normVars, jobVars, hostVars>>

onCase_warmed ==
    /\ tw.pc = "returned" /\ tw.it.ret = "warmup"
    /\ tw' = [tw EXCEPT !.pc = "warmup", !.i = @ + 1]
    /\ UNCHANGED <<tlog, sceneVars, invokeVars, runVars, measureVars, summaryVars, remoteVars, normVars, jobVars, hostVars>>

\* onCase: for (let i = 0; i < samples; i++) { time = await iterate(count); ... }
onCase_sample ==
    /\ tw.pc = "actual"
    /\ tw' = IF LoopTest(tw.i, tw.samples) THEN CallIterate(tw, tw.count, "actual")
             ELSE [tw EXCEPT !.pc = "done"]
    /\ UNCHANGED <<tlog, sceneVars, invokeVars, runVars, measureVars, summaryVars, remoteVars, normVars, jobVars, hostVars>>

\* onCase: values.push(time / count), kept as the pair
onCase_sampled ==
    /\ tw.pc = "returned" /\ tw.it.ret = "actual"
    /\ tw' = [tw EXCEPT !.pc = "actual", !.i = @ + 1,
                        !.values = Append(@, [time |-> tw.time, count |-> tw.count])]
    /\ UNCHANGED <<tlog, sceneVars, invokeVars, runVars, measureVars, summaryVars, remoteVars, normVars, jobVars, hostVars>>

\* JS count-- on a number
Decrement(x) == IF x.kind = "num" THEN Number(x.v - 1) ELSE x

\* syncWithSetup / asyncWithSetup: while (count-- > 0) { await runHooks(setupHooks) ...
iterate_setupHook ==
    /\ tw.pc = "iterate" /\ tw.iterate # "noSetup"
    /\ \/ /\ tw.it.at = "loop" /\ GtZero(tw.it.n)
          /\ tlog' = TimeEvent("before", 1)
          /\ tw' = [tw EXCEPT !.clock = @ + HookCost, !.it.n = Decrement(@),
                              !.it.k = 1, !.it.at = IF tw.case_.setupHooks > 1 THEN "setup" ELSE "fn"]
       \/ /\ tw.it.at = "setup"
          /\ tlog' = TimeEvent("before", tw.it.k + 1)
          /\ tw' = [tw EXCEPT !.clock = @ + HookCost, !.it.k = @ + 1,
                              !.it.at = IF tw.it.k + 1 < tw.case_.setupHooks THEN "setup" ELSE "fn"]
    /\ UNCHANGED <<sceneVars, invokeVars, runVars, measureVars, summaryVars, remoteVars, normVars, jobVars, hostVars>>

\* One call of the workload.  noSetup: while (count-- > 0) fn() (awaited when
\* isAsync); with hooks: timeUsage -= now(); fn(); timeUsage += now().
iterate_fn ==
    /\ tw.pc = "iterate"
    /\ tlog' = TimeEvent("fn", 0)
    /\ \/ /\ tw.iterate = "noSetup" /\ tw.it.at = "loop" /\ GtZero(tw.it.n)
          /\ tw' = [tw EXCEPT !.clock = @ + CallCost(tw), !.called = @ + 1,
                              !.it.n = Decrement(@)]
       \/ /\ tw.iterate # "noSetup" /\ tw.it.at = "fn"
          /\ tw' = [tw EXCEPT !.clock = @ + CallCost(tw), !.called = @ + 1,
                              !.it.timeUsage = @ + CallCost(tw),
                              !.it.k = 1, !.it.at = "clean"]
    /\ UNCHANGED <<sceneVars, invokeVars, runVars, measureVars, summaryVars, remoteVars, normVars, jobVars, hostVars>>

\* ... await runHooks(cleanHooks) }
iterate_cleanHook ==
    /\ tw.pc = "iterate" /\ tw.it.at = "clean"
    /\ tlog' = TimeEvent("after", tw.it.k)
    /\ tw' = [tw EXCEPT !.clock = @ + HookCost, !.it.k = @ + 1,
                        !.it.at = IF tw.it.k < tw.case_.cleanHooks THEN "clean" ELSE "loop"]
    /\ UNCHANGED <<sceneVars, invokeVars, runVars, measureVars, summaryVars, remoteVars, normVars, jobVars, hostVars>>

\* The loop of the invoker ends: noSetup returns performance.now() - start, the
\* others timeUsage.
iterate_return ==
    /\ tw.pc = "iterate" /\ tw.it.at = "loop" /\ ~GtZero(tw.it.n)
    /\ tw' = [tw EXCEPT !.pc = "returned",
                        !.time = IF tw.iterate = "noSetup" THEN tw.clock - tw.it.start
                                 ELSE tw.it.timeUsage]
    /\ UNCHANGED <<tlog, sceneVars, invokeVars, runVars, measureVars, summaryVars, remoteVars, normVars, jobVars, hostVars>>

NextTime ==
    \/ onCase_begin
    \/ getIterations_loop \/ getIterations_measured
    \/ onCase_check
    \/ onCase_warmup \/ onCase_warmed
    \/ onCase_sample \/ onCase_sampled
    \/ iterate_setupHook \/ iterate_fn \/ iterate_cleanHook \/ iterate_return

SpecTime == InitTime /\ [][NextTime]_vars


(***************************************************************************)
(* Properties of the time profiler                                         *)
(***************************************************************************)
FnCalls(stage) == {j \in DOMAIN tlog : tlog[j].ev = "fn" /\ tlog[j].stage = stage}
AllFnCalls     == {j \in DOMAIN tlog : tlog[j].ev = "fn"}

TimeDone     == tw.pc = "done"
TimeRejected == TimeDone /\ tw.error # ""

\* C12: on a configuration error the run never starts.  For invalid timing
\* options: when the time profiler rejects its options, no workload has been
\* invoked (nor beforeAll, setup or a profiler hook, which all come before the
\* first workload call).
C12_NoRunOnConfigError ==
    TimeRejected => AllFnCalls = {}


HasIterationHooks == tw.case_.setupHooks > 0 \/ tw.case_.cleanHooks > 0

\* C14: while a case with at least one before- or after-iteration hook is
\* measured, every call of the workload is immediately preceded by all the
\* before-hooks and immediately followed by all the after-hooks, in their
\* order, for sync and async cases alike.  (Read between two calls of the
\* invoker, when no iteration is under way.)
C14_HooksAroundEveryCall ==
    (tw.pc \notin {"idle", "onCase", "iterate"} /\ HasIterationHooks) =>
        \A j \in AllFnCalls :
            /\ j > tw.case_.setupHooks
            /\ \A k \in 1..tw.case_.setupHooks :
                  /\ tlog[j - tw.case_.setupHooks + k - 1].ev = "before"
                  /\ tlog[j - tw.case_.setupHooks + k - 1].k = k
            /\ j + tw.case_.cleanHooks <= Len(tlog)
            /\ \A k \in 1..tw.case_.cleanHooks :
                  tlog[j + k].ev = "after" /\ tlog[j + k].k = k


IntegerIterations == tw.config.iterations # <<>> /\ tw.config.iterations[1].kind = "number"
TimeAccepted      == TimeDone /\ tw.error = ""

\* What the i-th sample measures when no call of the workload is made outside
\* the warm-up and the samples: the first call of all costs w.first.
SampleTime(i) ==
    tw.count.v * tw.w.later + (IF tw.warmup = 0 /\ i = 1 THEN tw.w.first - tw.w.later ELSE 0)

MinimalConfig ==
    tw.config = [warmup |-> <<0>>, samples |-> <<1>>, iterations |-> <<Count(1)>>]

\* C16: with iterations = 1, samples = 1 and warmup = 0 the configuration is
\* accepted and the workload of the case is invoked exactly once: one sample
\* of one call.
C16_MinimalConfigRunsOnce ==
    (tw.pc # "idle" /\ MinimalConfig) =>
        /\ tw.error = ""
        /\ Cardinality(AllFnCalls) <= 1
        /\ TimeDone => /\ Cardinality(FnCalls("actual")) = 1 /\ Cardinality(AllFnCalls) = 1
                       /\ Len(tw.values) = 1

C16_Witness ==
    /\ MinimalConfig /\ TimeAccepted
    /\ Cardinality(AllFnCalls) = 1
    /\ tw.values = <<[time |-> tw.w.first, count |-> Number(1)]>>


\* The options the time profiler must refuse: samples < 1, an integer
\* iterations < 1, a duration iterations of 0 ms or less.
InvalidTiming ==
    \/ Option(tw.config.samples, DefaultSamples) < 1
    \/ Option(tw.config.iterations, DefaultIterations).n < 1

\* C17: the time profiler rejects every such configuration, and before the
\* workload of any case has been invoked, calibration included.
C17_InvalidOptionsRejected ==
    (tw.pc # "idle" /\ InvalidTiming) =>
        /\ AllFnCalls = {}
        /\ TimeDone => tw.error # ""


\* iterations is a duration of more than 0 ms
DurationTarget ==
    /\ tw.pc # "idle"
    /\ Option(tw.config.iterations, DefaultIterations).kind = "duration"
    /\ Option(tw.config.iterations, DefaultIterations).n > 0
Target == Option(tw.config.iterations, DefaultIterations).n

\* getIterations has returned
Calibrated ==
    \/ tw.pc \in {"check", "warmup", "actual", "done"}
    \/ tw.pc \in {"iterate", "returned"} /\ tw.it.ret # "pilot"

ConstantCost == tw.w.first = tw.w.later

\* C18: calibration for a duration target starts at count 1, only ever doubles
\* the count, stops at the first measurement whose elapsed time is >= target,
\* and scales the estimate to the target: for a workload of constant cost t per
\* call the returned count n satisfies target <= n x t < target + t.
C18_CalibrationScaled ==
    DurationTarget =>
        /\ \A i \in DOMAIN tw.pilots :
              /\ tw.pilots[i].count = 2 ^ (i - 1)
              /\ i < Len(tw.pilots) => tw.pilots[i].time < Target
        /\ Calibrated =>
              /\ tw.pilots # <<>>
              /\ tw.pilots[Len(tw.pilots)].time >= Target
              /\ tw.count.kind = "num"
              /\ ConstantCost =>
                    /\ Target <= tw.count.v * tw.w.later
                    /\ tw.count.v * tw.w.later < Target + tw.w.later

C18_Witness ==
    /\ DurationTarget /\ Calibrated /\ ConstantCost
    /\ Target = 4 /\ tw.w.later = 3
    /\ Len(tw.pilots) = 2 /\ tw.count = Number(2)


Exponents == 0..12

\* ceil(log2(a / b)) for integers a, b > 0
CeilLog2(a, b) ==
    IF a > b THEN CHOOSE k \in Exponents : b * 2 ^ k >= a /\ \A j \in Exponents : b * 2 ^ j >= a => k <= j
    ELSE 0 - (CHOOSE k \in Exponents : a * 2 ^ k <= b /\ \A j \in Exponents : a * 2 ^ j <= b => j <= k)

Max(a, b) == IF a >= b THEN a ELSE b

\* The time measured for the first call of the calibration
InitialTime == tw.pilots[1].time

\* C19: calibration terminates, for any workload whose measured time for one call
\* is initialTime > 0, after at most ceil(log2(target / initialTime)) + 1
\* doublings of the count.
C19_DoublingBound ==
    (DurationTarget /\ tw.pilots # <<>>) =>
        tw.doublings <= CeilLog2(Target, InitialTime) + 1

\* C19, amended: for a workload of constant cost t > 0 per call, calibration
\* terminates after at most max(ceil(log2(target / t)), 0) + 1 doublings of the
\* count.
C19_DoublingBoundConstantCost ==
    (DurationTarget /\ ConstantCost) =>
        /\ tw.doublings <= Max(CeilLog2(Target, tw.w.later), 0) + 1
        /\ tw.doublings = Len(tw.pilots)

C19_Witness ==
    /\ DurationTarget /\ ConstantCost /\ Calibrated
    /\ Target = 6 /\ tw.w.later = 1
    /\ tw.doublings = 4


(***************************************************************************)
(* SpecMeasure: the stages of the time profiler that follow calibration,   *)
(* for one case: overhead evaluation, sampling with the overhead           *)
(* subtracted, the zero-measurement check, publication; before them the    *)
(* registration of the metric in onStart.  A sample is the elapsed time    *)
(* of `calls` = count x unrollFactor invocations; a per-call time is kept  *)
(* as the fraction num / den.                                              *)
(***************************************************************************)
MaxSamples == 2

\* What one measure(count) may return, in whole clock units; the clock may not
\* have advanced at all
Elapsed == {0, 1, 3, 22}

ZeroNote == "The function duration is indistinguishable from the empty function duration."

PerCall(num, den) == [num |-> num, den |-> den]

Min(seq) == CHOOSE v \in {seq[i] : i \in DOMAIN seq} : \A i \in DOMAIN seq : v <= seq[i]

\* The iteration hooks of the case are not looked at.
skipsOverhead_ignoresHooks(options) == ~options.evaluateOverhead

\* Overhead evaluation is skipped when evaluateOverhead is false or the case has
\* iteration hooks.
skipsOverhead(options) == ~options.evaluateOverhead \/ options.hasHooks

\* perCall = elapsed / calls - overheadPerCall, where overheadPerCall is
\* min(overhead samples) / calls, or 0 when the overhead stage was skipped
subtractOverhead(elapsed, overhead, ncalls) ==
    PerCall(elapsed - (IF overhead = <<>> THEN 0 ELSE Min(overhead)), ncalls)

\* The sequence is rewritten as soon as one sample is <= 0.
zeroCheck_anySample(values) ==
    IF \E i \in DOMAIN values : values[i].num <= 0
    THEN [values |-> <<PerCall(0, 1)>>, warn |-> <<ZeroNote>>]
    ELSE [values |-> values, warn |-> <<>>]

\* The zero-measurement check: when every sample is <= 0 the sequence becomes
\* [0] and a warn note is added
zeroCheck(values) ==
    IF \A i \in DOMAIN values : values[i].num <= 0
    THEN [values |-> <<PerCall(0, 1)>>, warn |-> <<ZeroNote>>]
    ELSE [values |-> values, warn |-> <<>>]

\* The throughput option: absent, or the unit of time of the operations counted
ThroughputOptions == {<<>>, <<"s">>, <<"ms">>}

\* A unit of time in milliseconds
UnitMs(unit) == IF unit = "s" THEN 1000 ELSE 1

\* Both descriptors are registered.
registerMeta_both(options) == {"time", "throughput"}

\* onStart registers the descriptor of the one metric the profiler publishes
registerMeta(options) == IF options.throughput = <<>> THEN {"time"} ELSE {"throughput"}

IsZeroMeasurement(time) == time = <<PerCall(0, 1)>>

\* The zero measurement is converted as any other: unit / 0.
toThroughput_zeroToo(options, time) ==
    [k \in {"throughput"} |->
        [i \in DOMAIN time |-> PerCall(UnitMs(options.throughput[1]) * time[i].den, time[i].num)]]

\* Each per-call time t (ms) becomes unit / t under `throughput`; nothing is
\* stored for a zero measurement
toThroughput(options, time) ==
    [k \in IF IsZeroMeasurement(time) THEN {} ELSE {"throughput"} |->
        [i \in DOMAIN time |-> PerCall(UnitMs(options.throughput[1]) * time[i].den, time[i].num)]]

\* Publication: under `throughput` when a unit is requested, else under `time`
publish(options, time) ==
    IF options.throughput = <<>> THEN [k \in {"time"} |-> time]
    ELSE toThroughput(options, time)

InitMeasure ==
    /\ \E samples \in 1..MaxSamples, count \in {1, 2}, unrollFactor \in {1, 16},
          evaluateOverhead \in BOOLEAN, hasHooks \in BOOLEAN, caseId \in {0, 1},
          throughput \in ThroughputOptions :
        etm = [pc |-> "onStart",
               options |-> [samples |-> samples, evaluateOverhead |-> evaluateOverhead,
                            hasHooks |-> hasHooks, throughput |-> throughput,
                            unrollFactor |-> unrollFactor],
               count |-> count, calls |-> count * unrollFactor, caseId |-> caseId,
               overhead |-> <<>>, elapsed |-> <<>>, values |-> <<>>,
               notes |-> <<>>, time |-> <<>>, meta |-> {}, metrics |-> <<>>]
    /\ IdleScene /\ IdleInvoke /\ IdleRun /\ IdleTime /\ IdleSummary /\ IdleRemote /\ IdleNormalize /\ IdleJobs /\ IdleHost

\* TimeProfiler.onStart: ctx.defineMetric of the metric published
TimeProfiler_onStart ==
    /\ etm.pc = "onStart"
    /\ etm' = [etm EXCEPT !.pc = "overhead", !.meta = registerMeta(etm.options)]
    /\ UNCHANGED <<sceneVars, invokeVars, runVars, timeVars, summaryVars, remoteVars, normVars, jobVars, hostVars>>

\* One sample of the no-op workload; the stage is left at once when skipped.
run_overhead ==
    /\ etm.pc = "overhead"
    /\ IF skipsOverhead(etm.options)
       THEN etm' = [etm EXCEPT !.pc = "sampling"]
       ELSE \E o \in Elapsed :
               etm' = [etm EXCEPT !.overhead = Append(@, o),
                                  !.pc = IF Len(etm.overhead) + 1 = etm.options.samples
                                         THEN "sampling" ELSE "overhead"]
    /\ UNCHANGED <<sceneVars, invokeVars, runVars, timeVars, summaryVars, remoteVars, normVars, jobVars, hostVars>>

\* One sample of the workload, with the overhead subtracted
run_sample ==
    /\ etm.pc = "sampling"
    /\ \E e \in Elapsed :
        etm' = [etm EXCEPT !.elapsed = Append(@, e),
                           !.values = Append(@, subtractOverhead(e, etm.overhead, etm.calls)),
                           !.pc = IF Len(etm.elapsed) + 1 = etm.options.samples
                                  THEN "check" ELSE "sampling"]
    /\ UNCHANGED <<sceneVars, invokeVars, runVars, timeVars, summaryVars, remoteVars, normVars, jobVars, hostVars>>

\* The zero-measurement check; ctx.note("warn", text, case_); the sequence is the
\* result of run().
run_zeroCheck ==
    /\ etm.pc = "check"
    /\ LET r == zeroCheck(etm.values)
       IN  etm' = [etm EXCEPT !.pc = "done", !.time = r.values,
                       !.notes = @ \o [i \in DOMAIN r.warn |->
                                        [type |-> "warn", text |-> r.warn[i], caseId |-> etm.caseId]]]
    /\ UNCHANGED <<sceneVars, invokeVars, runVars, timeVars, summaryVars, remoteVars, normVars, jobVars, hostVars>>

\* TimeProfiler.onCase, after run() has returned: the metric is stored in the
\* metrics record of the case
TimeProfiler_onCase ==
    /\ etm.pc = "done"
    /\ etm' = [etm EXCEPT !.pc = "published", !.metrics = publish(etm.options, etm.time)]
    /\ UNCHANGED <<sceneVars, invokeVars, runVars, timeVars, summaryVars, remoteVars, normVars, jobVars, hostVars>>

NextMeasure ==
    \/ TimeProfiler_onStart
    \/ run_overhead \/ run_sample \/ run_zeroCheck
    \/ TimeProfiler_onCase

SpecMeasure == InitMeasure /\ [][NextMeasure]_vars

\* The overhead that was subtracted from every sample
OverheadTaken == IF etm.overhead = <<>> THEN 0 ELSE Min(etm.overhead)

\* C20: when every sample is <= 0 after the overhead is subtracted, the published
\* sequence is exactly [0] and exactly one warn note with the fixed text is
\* added for the case; when at least one sample is > 0, the sequence is published
\* unchanged, no sample dropped, and there is no such note.
C20_ZeroMeasurement ==
    etm.pc \in {"done", "published"} =>
        IF \A i \in DOMAIN etm.elapsed : etm.elapsed[i] <= OverheadTaken
        THEN /\ etm.time = <<PerCall(0, 1)>>
             /\ etm.notes = <<[type |-> "warn", text |-> ZeroNote, caseId |-> etm.caseId]>>
        ELSE /\ Len(etm.time) = etm.options.samples
             /\ \A i \in DOMAIN etm.time :
                   etm.time[i] = PerCall(etm.elapsed[i] - OverheadTaken, etm.calls)
             /\ etm.notes = <<>>

C20_Witness ==
    /\ etm.pc = "done"
    /\ etm.overhead = <<22, 22>> /\ etm.elapsed = <<1, 1>>
    /\ etm.time = <<PerCall(0, 1)>> /\ Len(etm.notes) = 1


(***************************************************************************)
(* SpecValidate: runSuite of a suite with `validate`.  The onStart of the  *)
(* ExecutionValidator builds a scene for each parameter combination, the   *)
(* way the driver does, and invokes each of its cases once; with           *)
(* `equality` it then compares what the workloads of the scene returned.   *)
(* Its loop indices are kept in frame.comb and frame.case.                 *)
(***************************************************************************)
InitValidate ==
    /\ \E params \in {p \in ParamDefs : resolveParams(p).ok /\ Len(p.entries) <= 1},
          pattern \in {RE_ANY, "a"} :
        suite = [params |-> params, baseline |-> NoBaseline, pattern |-> pattern,
                 validate |-> TRUE]
    /\ pc = "runSuite"
    /\ ctx = [hasRun |-> FALSE]
    /\ frame = [k |-> 0]
    /\ outcome = Pending
    /\ trace = <<>>
    /\ sceneLog = <<>>
    /\ rerun = <<>>
    /\ IdleScene /\ IdleInvoke /\ IdleTime /\ IdleMeasure /\ IdleSummary /\ IdleRemote /\ IdleNormalize /\ IdleJobs /\ IdleHost

\* The validation is over: the onStart hooks of the other profilers follow.
ValidatorReturns(f) ==
    [f EXCEPT !.comb = 0, !.case = 0, !.scene = NoScene, !.k = NextProfiler("onStart", 0)]

\* onStart of the validator, for the next combination: new Scene(comb, ctx) and
\* await suite.setup(scene)
validator_scene ==
    /\ pc = "validate"
    /\ IF frame.comb >= Len(frame.combs)
       THEN /\ pc' = "onStart"
            /\ frame' = ValidatorReturns(frame)
            /\ UNCHANGED <<ctx, trace>>
       ELSE \E script \in SetupScripts :
            LET params == frame.combs[frame.comb + 1]
                r == runSetup(Scene(params, ctx.pattern), script)
            IN  /\ trace' = Append(trace, [ev |-> "setup", p |-> 0, scene |-> frame.comb + 1,
                                           case |-> 0, id |-> NoId])
                /\ ctx' = setWorkingParams(ctx, params)
                /\ pc' = IF r.ok THEN "validateCase" ELSE "afterAll"
                /\ frame' = [frame EXCEPT !.comb = @ + 1, !.scene = r.scene, !.case = 1,
                                          !.thrown = r.error,
                                          !.validated = IF r.ok THEN Append(@, Len(r.scene.cases))
                                                        ELSE @]
    /\ UNCHANGED <<suite, outcome, sceneLog, rerun, sceneVars, invokeVars, timeVars, measureVars, summaryVars, remoteVars, normVars, jobVars, hostVars>>

\* await case_.invoke(): one case of the scene is invoked, and may fail
validator_invoke ==
    /\ pc = "validateCase" /\ frame.case <= Len(frame.scene.cases)
    /\ trace' = Emit("validate", 0, NoId)
    /\ \E throws \in BOOLEAN :
        IF throws
        THEN /\ pc' = "afterAll"
             /\ frame' = [frame EXCEPT !.thrown = Error("workload failed", "validate")]
        ELSE /\ frame' = [frame EXCEPT !.case = @ + 1]
             /\ UNCHANGED pc
    /\ UNCHANGED <<suite, ctx, outcome, sceneLog, rerun, sceneVars, invokeVars, timeVars, measureVars, summaryVars, remoteVars, normVars, jobVars, hostVars>>

\* The cases of the scene are done: the equality check of what they returned,
\* which may fail; then the next combination.
validator_equality ==
    /\ pc = "validateCase" /\ frame.case > Len(frame.scene.cases)
    /\ \E differs \in BOOLEAN :
        IF differs /\ Len(frame.scene.cases) > 1
        THEN /\ pc' = "afterAll"
             /\ frame' = [frame EXCEPT !.thrown = Error("not equal", "equality")]
        ELSE /\ pc' = "validate"
             /\ frame' = [frame EXCEPT !.case = 0]
    /\ UNCHANGED <<suite, ctx, outcome, trace, sceneLog, rerun, sceneVars, invokeVars, timeVars, measureVars, summaryVars, remoteVars, normVars, jobVars, hostVars>>

NextValidate ==
    \/ runSuite_begin \/ runSuite_beforeAll
    \/ validator_scene \/ validator_invoke \/ validator_equality
    \/ run_onStart \/ run_onStartDone
    \/ runScene_setup
    \/ runScene_onScene \/ runScene_onSceneDone
    \/ runScene_onCase \/ runScene_onCaseDone
    \/ runScene_teardown \/ runScene_teardownDone
    \/ run_onFinish \/ run_onFinishDone
    \/ runSuite_afterAll

SpecValidate == InitValidate /\ [][NextValidate]_vars


\* The positions of the trace where the TimeProfiler measures a case: its
\* calibration, warm-up and samples are all taken in its onCase.
TimeSamples == {i \in DOMAIN trace : trace[i].ev = "onCase" /\ trace[i].p = TimeProfiler}

\* The positions of the trace where the validator invoked case k of combination c.
Validations(c, k) ==
    {i \in DOMAIN trace : trace[i].ev = "validate" /\ trace[i].scene = c /\ trace[i].case = k}

ValidationFailed ==
    /\ HasContext /\ frame.thrown # NoError
    /\ \/ frame.thrown.origin \in {"validate", "equality"}
       \/ frame.thrown.origin \in {"setup", "add"} /\ pc \in {"afterAll", "done"}
                                                   /\ Len(frame.validated) < Len(frame.combs)

\* C13: with `validate`, every case of every parameter combination is invoked
\* once before the TimeProfiler measures any case; when an invocation or the
\* equality check of the validation fails, the run is rejected and the
\* TimeProfiler has measured nothing.
C13_ValidationBeforeSamples ==
    suite.validate =>
        /\ \A j \in TimeSamples :
            /\ Len(frame.validated) = Len(frame.combs)
            /\ \A c \in DOMAIN frame.validated : \A k \in 1..frame.validated[c] :
                /\ Cardinality(Validations(c, k)) = 1
                /\ \A i \in Validations(c, k) : i < j
        /\ ValidationFailed =>
            /\ TimeSamples = {}
            /\ pc = "done" => outcome.state = "rejected"

C13_Witness ==
    /\ suite.validate /\ outcome.state = "resolved"
    /\ Len(frame.combs) = 2
    /\ Cardinality(TimeSamples) >= 3
    /\ \E c \in DOMAIN frame.validated : frame.validated[c] = 2

C13_WitnessFailed ==
    /\ suite.validate /\ outcome.state = "rejected"
    /\ frame.thrown.origin = "equality" /\ TimeSamples = {}


(***************************************************************************)
(* Properties of the publication (SpecMeasure)                             *)
(***************************************************************************)
Published == etm.pc = "published"
WantsThroughput == etm.options.throughput # <<>>

\* C21: when a throughput unit is requested and the measurement of the case is
\* the zero measurement [0], the profiler stores nothing for the case: neither
\* `throughput` nor `time`.
C21_NoThroughputForZero ==
    (Published /\ WantsThroughput /\ IsZeroMeasurement(etm.time)) => DOMAIN etm.metrics = {}

C21_Witness ==
    /\ Published /\ etm.options.throughput = <<"s">>
    /\ etm.overhead = <<22, 22>> /\ etm.elapsed = <<1, 1>>
    /\ IsZeroMeasurement(etm.time)
    /\ DOMAIN etm.metrics = {}

\* t (ms) is stored as unit / t: th x t = unit, in fractions; unit / 0 is the
\* fraction of denominator 0
IsThroughputOf(th, t, unit) ==
    /\ th.num * t.num = UnitMs(unit) * th.den * t.den
    /\ th.den = 0 <=> t.num = 0

StoredAsThroughput ==
    /\ DOMAIN etm.metrics = {"throughput"}
    /\ Len(etm.metrics["throughput"]) = Len(etm.time)
    /\ \A i \in DOMAIN etm.time :
          IsThroughputOf(etm.metrics["throughput"][i], etm.time[i], etm.options.throughput[1])

StoredAsTime == DOMAIN etm.metrics = {"time"} /\ etm.metrics["time"] = etm.time

\* C22 (as stated): exactly one of the two metrics is published: with a
\* throughput unit only the `throughput` descriptor is registered and the
\* per-call times of the case are stored as unit / t under `throughput`, with no
\* `time` key; otherwise only `time` is registered and stored.
C22_ExactlyOneMetric ==
    Published =>
        IF WantsThroughput THEN etm.meta = {"throughput"} /\ StoredAsThroughput
        ELSE etm.meta = {"time"} /\ StoredAsTime

\* C22 (amended): the same, except that with a throughput unit nothing is
\* stored for a case whose measurement is the zero measurement.
C22_ExactlyOneMetricUnlessZero ==
    Published =>
        IF WantsThroughput
        THEN /\ etm.meta = {"throughput"}
             /\ IF IsZeroMeasurement(etm.time) THEN DOMAIN etm.metrics = {}
                ELSE StoredAsThroughput
        ELSE etm.meta = {"time"} /\ StoredAsTime

C22_Witness ==
    /\ Published /\ etm.options.throughput = <<"s">>
    /\ etm.calls = 2 /\ etm.elapsed = <<3, 22>> /\ etm.overhead = <<1, 3>>
    /\ etm.metrics["throughput"] = <<PerCall(2000, 2), PerCall(2000, 21)>>

\* Two fractions of positive denominators are the same number.
SameValue(a, b) == a.num * b.den = b.num * a.den

\* Every entry of seq is the per-call time of the sample of its position:
\* elapsed / (count x unrollFactor) - overheadPerCall, where overheadPerCall is
\* min(no-op samples) / (count x unrollFactor), or 0 without no-op samples
SamplesComputed(seq) ==
    \A i \in DOMAIN seq :
        SameValue(seq[i], PerCall(etm.elapsed[i] - OverheadTaken,
                                  etm.count * etm.options.unrollFactor))

OverheadStage ==
    IF etm.options.evaluateOverhead /\ ~etm.options.hasHooks
    THEN Len(etm.overhead) = etm.options.samples
    ELSE etm.overhead = <<>> /\ OverheadTaken = 0

\* C30 (as stated): with evaluateOverhead and no iteration hooks the overhead
\* per call is the minimum of the no-op samples over count x unrollFactor and
\* every published per-call time is elapsed / (count x unrollFactor) minus it;
\* otherwise no no-op sample is taken and the overhead per call is 0.
C30_OverheadSubtracted ==
    etm.pc \in {"done", "published"} => OverheadStage /\ SamplesComputed(etm.time)

\* C30 (amended): the same of the samples that the zero-measurement check
\* receives; what is published is these samples, or [0] when all of them are <= 0.
C30_OverheadSubtractedBeforeZeroCheck ==
    etm.pc \in {"done", "published"} =>
        /\ OverheadStage
        /\ Len(etm.values) = etm.options.samples
        /\ SamplesComputed(etm.values)
        /\ IF \A i \in DOMAIN etm.values : etm.values[i].num <= 0
           THEN IsZeroMeasurement(etm.time) ELSE etm.time = etm.values

C30_Witness ==
    /\ Published
    /\ etm.options.evaluateOverhead /\ ~etm.options.hasHooks
    /\ etm.count = 2 /\ etm.options.unrollFactor = 16
    /\ etm.overhead = <<3, 1>> /\ etm.elapsed = <<22, 3>>
    /\ etm.time = <<PerCall(21, 32), PerCall(2, 32)>>

C30_WitnessSkipped ==
    /\ Published
    /\ etm.options.evaluateOverhead /\ etm.options.hasHooks
    /\ etm.overhead = <<>> /\ etm.elapsed = <<22, 3>>
    /\ etm.time = <<PerCall(22, etm.calls), PerCall(3, etm.calls)>>


(***************************************************************************)
(* SpecSummary: new Summary(toolchain results) and its queries.  A         *)
(* toolchain result is what runSuite returns for the suite, with the names *)
(* of the executor and the builder that ran it.  A row of the table is an  *)
(* object; `ref` is its identity, the position at which it was pushed.     *)
(***************************************************************************)
MaxCaseNotes == 1   \* notes in the toolchain results given to one Summary
MaxRows      == 8   \* rows of the table of one Summary

\* A property key that is a canonical array index: own properties with such
\* keys are enumerated first, in ascending numeric order.
IsArrayIndex(name) ==
    /\ name # <<>>
    /\ \A i \in DOMAIN name : \E d \in DOMAIN Digits : Digits[d] = name[i]
    /\ Len(name) > 1 => name[1] # "0"

RECURSIVE ToNumber(_)
ToNumber(name) ==
    IF name = <<>> THEN 0
    ELSE 10 * ToNumber(SubSeq(name, 1, Len(name) - 1))
         + (CHOOSE d \in DOMAIN Digits : Digits[d] = name[Len(name)]) - 1

\* The positions `set` of obj in ascending numeric order of their keys, which
\* are distinct
RECURSIVE SortByNumber(_, _)
SortByNumber(set, obj) ==
    IF set = {} THEN <<>>
    ELSE LET m == CHOOSE e \in set : \A o \in set : ToNumber(obj[e][1]) <= ToNumber(obj[o][1])
         IN  <<m>> \o SortByNumber(set \ {m}, obj)

\* Object.entries(obj): the array-index keys in ascending order, then the other
\* string keys in the order of their insertion
ObjectEntries(obj) ==
    LET ints == {i \in DOMAIN obj : IsArrayIndex(obj[i][1])}
        byNumber == SortByNumber(ints, obj)
    IN  [k \in DOMAIN byNumber |-> obj[byNumber[k]]]
        \o SelectSeq(obj, LAMBDA e : ~IsArrayIndex(e[1]))

\* What a profiler stores for a case: here, where the case was measured.
Measured(params, case_) == [params |-> params, name |-> case_.name, id |-> case_.id]

\* runScene, the loop over the cases: the id, the metrics, results[name] = metrics
RECURSIVE runCases(_, _, _)
runCases(c, cases, params) ==
    IF cases = <<>> THEN c
    ELSE LET a == assignId(c, Head(cases))
         IN  runCases(recordCase(a.ctx, a.case_, Measured(params, a.case_)), Tail(cases), params)

\* run, the loop over the combinations: new Scene, setup, this.scenes.push(results)
RECURSIVE runScenes(_, _, _)
runScenes(c, combs, scripts) ==
    IF combs = <<>> THEN c
    ELSE LET scene == runSetup(Scene(Head(combs), c.pattern), Head(scripts)).scene
         IN  runScenes(runCases([c EXCEPT !.scenes = Append(@, <<>>)], scene.cases, Head(combs)),
                       Tail(combs), Tail(scripts))

\* ctx.note(type, text, case_) for each id of `ids`; NoId is a note without a case
RECURSIVE addNotes(_, _)
addNotes(c, ids) ==
    IF ids = <<>> THEN c
    ELSE addNotes(note(c, "info", "note", [id |-> Head(ids)]), Tail(ids))

\* The setup functions of the suites summarised: the cases they register
SummaryScripts == {
    <<Op("bench", <<"a">>), Op("benchAsync", <<"b">>)>>,
    <<Op("bench", <<"b">>), Op("bench", <<"0">>)>>,
    <<Op("bench", <<"a">>)>> }

SummaryParams == {
    [entries |-> <<>>, symbolKeys |-> 0],
    [entries |-> <<ParamEntry("x", "object", << <<"p", Num("1")>>, <<"q", Num("2")>> >>)>>,
     symbolKeys |-> 0],
    [entries |-> <<ParamEntry("x", "object", << <<"p", Num("1")>>, <<"q", Num("2")>> >>),
                   ParamEntry("y", "iter", <<Num("3"), Num("4")>>)>>,
     symbolKeys |-> 0] }

\* The names of the tools of a toolchain: <<>> is undefined
Tool(executor, builder) == [executor |-> executor, builder |-> builder]

Toolchains == {
    << Tool(<<>>, <<>>) >>,
    << Tool(<<"node">>, <<"None">>) >>,
    << Tool(<<"node">>, <<"None">>), Tool(<<"bun">>, <<"None">>) >>,
    << Tool(<<"node">>, <<"None">>), Tool(<<"bun">>, <<"Vite">>) >> }

\* The sequences over S of length at most n
SeqsUpTo(S, n) == UNION {[1..k -> S] : k \in 0..n}

\* runSuite of the suite on one toolchain: the result record with the names of
\* the tools.  rawParams and caseCount are not in the record: they keep the raw
\* values of the parameters and the number of cases measured.
ToolchainResult(tool, norm, pattern, scripts, noteIds) ==
    LET c0 == [ProfilingContext(pattern) EXCEPT !.hasRun = TRUE]
        c1 == runScenes(c0, cartesianObject(norm.params), scripts)
        c2 == addNotes(c1, noteIds)
    IN  [executor |-> tool.executor, builder |-> tool.builder,
         paramDef |-> norm.paramNames, scenes |-> c2.scenes, notes |-> c2.notes,
         rawParams |-> norm.params, caseCount |-> c2.caseIndex]


\* Map.get on `vars`: << the values >>, or <<>> when the variable is unknown
VarGet(vs, name) ==
    LET hit == {i \in DOMAIN vs : vs[i].key = name}
    IN  IF hit = {} THEN <<>> ELSE << vs[CHOOSE i \in hit : TRUE].values >>

\* addToVar: the values are added to the Set of the variable, which is created
\* at the end of `vars` when it does not exist
RECURSIVE SetAdd(_, _)
SetAdd(set, values) ==
    IF values = <<>> THEN set
    ELSE SetAdd(IF IndexOf(set, Head(values)) # 0 THEN set ELSE Append(set, Head(values)),
                Tail(values))

addToVar(vs, name, values) ==
    IF VarGet(vs, name) = <<>> THEN Append(vs, [key |-> name, values |-> SetAdd(<<>>, values)])
    ELSE [i \in DOMAIN vs |-> IF vs[i].key = name
                               THEN [vs[i] EXCEPT !.values = SetAdd(@, values)] ELSE vs[i]]

\* properties[k] of a row: << the value >>, or <<>> for undefined
Prop(row, k) ==
    CASE k = "Name" -> <<row.Name>>
      [] k = "Executor" -> row.Executor
      [] k = "Builder" -> row.Builder
      [] OTHER -> LET hit == {i \in DOMAIN row.params : row.params[i][1] = k}
                  IN  IF hit = {} THEN <<>> ELSE << row.params[CHOOSE i \in hit : TRUE][2] >>

\* indexOf(iter, k, v), from 0; -1 stands for the error it throws
indexOf(values, v) == IF v = <<>> THEN -1 ELSE IndexOf(values, v[1]) - 1

\* getIndex: the sum of factors[i] * indexOf(vars.get(keys[i]), properties[keys[i]])
RECURSIVE getIndexFrom(_, _, _)
getIndexFrom(s, properties, i) ==
    IF i > Len(s.keys) THEN Ok(0)
    ELSE LET k == s.keys[i]
             set == VarGet(s.vars, k)
             rest == getIndexFrom(s, properties, i + 1)
         IN  IF set = <<>> \/ indexOf(set[1], Prop(properties, k)) < 0
             THEN Throw(Error("is not in variables", "getIndex"))
             ELSE IF ~rest.ok THEN rest
             ELSE Ok(s.factors[i] * indexOf(set[1], Prop(properties, k)) + rest.value)

getIndex(s, properties) == getIndexFrom(s, properties, 1)

\* The rows of one scene, in the order of Object.entries(scene)
SceneRows(toolchain, tc, entries, params, first) ==
    [i \in DOMAIN entries |->
        [ref |-> first + i, Name |-> entries[i][1],
         Executor |-> toolchain.executor, Builder |-> toolchain.builder,
         params |-> params, metrics |-> entries[i][2], tc |-> tc, index |-> -1]]

\* The iterator is not advanced: every scene gets the first combination.
RECURSIVE addScenes_sameParams(_, _, _, _, _)
addScenes_sameParams(s, toolchain, tc, scenes, combs) ==
    IF scenes = <<>> THEN s
    ELSE LET entries == ObjectEntries(Head(scenes))
             rows == SceneRows(toolchain, tc, entries, Head(combs), Len(s.table))
         IN  addScenes_sameParams(
                [s EXCEPT !.table = @ \o rows,
                          !.vars = addToVar(@, "Name", [i \in DOMAIN rows |-> rows[i].Name])],
                toolchain, tc, Tail(scenes), combs)

\* addResult, the loop over the scenes: the next combination of the iterator,
\* the rows of the scene and their names
RECURSIVE addScenes(_, _, _, _, _)
addScenes(s, toolchain, tc, scenes, combs) ==
    IF scenes = <<>> THEN s
    ELSE LET entries == ObjectEntries(Head(scenes))
             rows == SceneRows(toolchain, tc, entries, Head(combs), Len(s.table))
         IN  addScenes([s EXCEPT !.table = @ \o rows,
                                 !.vars = addToVar(@, "Name", [i \in DOMAIN rows |-> rows[i].Name])],
                       toolchain, tc, Tail(scenes), Tail(combs))

\* addResult, one note: resolved.row = this.table[offset + caseId] when the note
\* has a caseId; 0 is no row
resolveNote(s, offset, n) ==
    [type |-> n.type, text |-> n.text,
     row |-> IF n.caseId # NoId /\ offset + n.caseId + 1 \in DOMAIN s.table
             THEN s.table[offset + n.caseId + 1].ref ELSE 0]

\* addResult
addResult(s, toolchain, tc) ==
    LET offset == Len(s.table)
        v1 == IF toolchain.executor # <<>> THEN addToVar(s.vars, "Executor", toolchain.executor)
              ELSE s.vars
        v2 == IF toolchain.builder # <<>> THEN addToVar(v1, "Builder", toolchain.builder) ELSE v1
        RECURSIVE addParams(_, _)
        addParams(vs, def) ==
            IF def = <<>> THEN vs
            ELSE addParams(addToVar(vs, Head(def).key, Head(def).values), Tail(def))
        s1 == addScenes([s EXCEPT !.vars = addParams(v2, toolchain.paramDef)],
                        toolchain, tc, toolchain.scenes, cartesianObject(toolchain.paramDef))
    IN  [s1 EXCEPT !.notes = @ \o [i \in DOMAIN toolchain.notes |->
                                        resolveNote(s1, offset, toolchain.notes[i])]]

\* The factors of sort(varNames), from the last name to the first; the last
\* element is the size of iMap.  <<>> when a name is not in `vars`.
RECURSIVE Factors(_, _)
Factors(vs, varNames) ==
    IF varNames = <<>> THEN <<1>>
    ELSE LET rest == Factors(vs, Tail(varNames))
             set == VarGet(vs, Head(varNames))
         IN  IF rest = <<>> \/ set = <<>> THEN <<>>
             ELSE <<Head(rest) * Len(set[1])>> \o rest

\* The table is left in the order of insertion.
RECURSIVE SortedPositions_unsorted(_, _)
SortedPositions_unsorted(set, table) ==
    IF set = {} THEN <<>>
    ELSE LET m == CHOOSE p \in set : \A q \in set : p <= q
         IN  <<m>> \o SortedPositions_unsorted(set \ {m}, table)

\* The positions of the table in ascending order of the index, equal indices in
\* the order of the table
RECURSIVE SortedPositions(_, _)
SortedPositions(set, table) ==
    IF set = {} THEN <<>>
    ELSE LET m == CHOOSE p \in set : \A q \in set :
                    \/ table[p].index < table[q].index
                    \/ table[p].index = table[q].index /\ p <= q
         IN  <<m>> \o SortedPositions(set \ {m}, table)

\* The last row of the table whose index is i, or 0: iMap[index] = item in the
\* order of the table
LastAt(table, i) ==
    LET hit == {p \in DOMAIN table : table[p].index = i}
    IN  IF hit = {} THEN 0 ELSE table[CHOOSE p \in hit : \A q \in hit : q <= p].ref

\* sort(varNames)
sort(s, varNames) ==
    LET f == Factors(s.vars, varNames)
        s1 == [s EXCEPT !.keys = varNames, !.factors = Tail(f)]
        found == [p \in DOMAIN s.table |-> getIndex(s1, s.table[p])]
        bad == {p \in DOMAIN s.table : ~found[p].ok}
        indexed == [p \in DOMAIN s.table |-> [s.table[p] EXCEPT !.index = found[p].value]]
        order == SortedPositions(DOMAIN indexed, indexed)
    IN  IF f = <<>> THEN Throw(Error("is not in variables", "sort"))
        ELSE IF bad # {} THEN Throw(Error("is not in variables", "getIndex"))
        ELSE Ok([s1 EXCEPT !.table = [k \in DOMAIN order |-> indexed[order[k]]],
                           !.iMap = [i \in 0..(Head(f) - 1) |-> LastAt(indexed, i)]])

\* this.iMap[i]: the row, or 0 for undefined
At(s, i) == IF i \in DOMAIN s.iMap THEN s.iMap[i] ELSE 0

\* find(variables): the row at the index of the variables; -1 when getIndex throws
find(s, variables) ==
    LET r == getIndex(s, variables) IN IF r.ok THEN At(s, r.value) ELSE -1

\* The row found is the one of the first value of the axis, for every value.
findAll_noSweep(s, variables, axis) ==
    LET values == VarGet(s.vars, axis)[1]
    IN  [i \in DOMAIN values |-> find(s, variables)]

\* findAll(variables, axis)
findAll(s, variables, axis) ==
    LET values == VarGet(s.vars, axis)[1]
        copy == CASE axis = "Name" -> [variables EXCEPT !.Name = values[1]]
                  [] axis = "Executor" -> [variables EXCEPT !.Executor = <<values[1]>>]
                  [] axis = "Builder" -> [variables EXCEPT !.Builder = <<values[1]>>]
                  [] OTHER -> [variables EXCEPT !.params =
                                 IF Prop(variables, axis) = <<>> THEN Append(@, <<axis, values[1]>>)
                                 ELSE [j \in DOMAIN @ |-> IF @[j][1] = axis THEN <<axis, values[1]>>
                                                           ELSE @[j]]]
        index == getIndex(s, copy).value
        f == s.factors[IndexOf(s.keys, axis)]
    IN  [i \in DOMAIN values |-> At(s, index + f * (i - 1))]


\* The setup of the suite, as the script it runs for each combination
SuiteSetups(norm) ==
    LET n == Len(cartesianObject(norm.params))
    IN  {sc \in [1..n -> SummaryScripts] :
            \/ \A i \in 1..n : sc[i] = sc[1]
            \/ /\ sc[1] = <<Op("bench", <<"a">>), Op("benchAsync", <<"b">>)>>
               /\ \A i \in 2..n : sc[i] = sc[n] /\ sc[i] # sc[1]}

\* new Summary(suiteResult), before the loop over the results
NewSummary(input) ==
    [pc |-> "addResult", input |-> input, next |-> 1,
     vars |-> <<[key |-> "Name", values |-> <<>>]>>,
     table |-> <<>>, notes |-> <<>>, keys |-> <<>>, factors |-> <<>>, iMap |-> <<>>,
     caller |-> ""]

InitSummary ==
    /\ \E params \in SummaryParams, pattern \in {RE_ANY, "a"}, tools \in Toolchains :
        LET norm == resolveParams(params).value IN
        \E scripts \in SuiteSetups(norm) :
        \E noteIds \in [DOMAIN tools ->
                SeqsUpTo({NoId} \cup 0..(ToolchainResult(tools[1], norm, pattern, scripts, <<>>).caseCount - 1),
                         MaxCaseNotes)] :
            /\ Len(Flatten(noteIds)) <= MaxCaseNotes
            /\ Len(tools) * ToolchainResult(tools[1], norm, pattern, scripts, <<>>).caseCount <= MaxRows
            /\ sm = NewSummary([t \in DOMAIN tools |->
                                ToolchainResult(tools[t], norm, pattern, scripts, noteIds[t])])
    /\ IdleScene /\ IdleInvoke /\ IdleRun /\ IdleTime /\ IdleMeasure /\ IdleRemote /\ IdleNormalize /\ IdleJobs /\ IdleHost

\* The constructor, one turn of its loop: this.addResult(result)
Summary_addResult ==
    /\ sm.pc = "addResult" /\ sm.next <= Len(sm.input)
    /\ sm' = [addResult(sm, sm.input[sm.next], sm.next) EXCEPT !.next = @ + 1]
    /\ UNCHANGED <<sceneVars, invokeVars, runVars, timeVars, measureVars, remoteVars, normVars, jobVars, hostVars>>

\* The constructor, after the loop: this.sort([...rest, name])
Summary_constructor ==
    /\ sm.pc = "addResult" /\ sm.next > Len(sm.input)
    /\ LET names == [i \in DOMAIN sm.vars |-> sm.vars[i].key]
           r == sort(sm, Tail(names) \o <<Head(names)>>)
       IN  sm' = IF r.ok THEN [r.value EXCEPT !.pc = "sorted", !.caller = "constructor"]
                 ELSE [sm EXCEPT !.pc = "thrown"]
    /\ UNCHANGED <<sceneVars, invokeVars, runVars, timeVars, measureVars, remoteVars, normVars, jobVars, hostVars>>

Reverse(seq) == [i \in DOMAIN seq |-> seq[Len(seq) + 1 - i]]

\* The orders of the variables a reporter sorts by, every variable once: the
\* order of `vars`, its rotations and its reverse
Orders(vs) ==
    LET names == [i \in DOMAIN vs |-> vs[i].key]
        rotations == {SubSeq(names, k, Len(names)) \o SubSeq(names, 1, k - 1) : k \in DOMAIN names}
    IN  rotations \cup {Reverse(names)}

\* summary.sort(varNames), called by a reporter
Summary_sort ==
    /\ sm.pc = "sorted"
    /\ \E order \in Orders(sm.vars) :
        LET r == sort(sm, order)
        IN  r.ok /\ sm' = [r.value EXCEPT !.caller = "reporter"]
    /\ UNCHANGED <<sceneVars, invokeVars, runVars, timeVars, measureVars, remoteVars, normVars, jobVars, hostVars>>

NextSummary == Summary_addResult \/ Summary_constructor \/ Summary_sort

SpecSummary == InitSummary /\ [][NextSummary]_vars


(***************************************************************************)
(* Properties of the Summary (SpecSummary)                                 *)
(***************************************************************************)
Sorted == sm.pc = "sorted"
VarNames == {sm.vars[i].key : i \in DOMAIN sm.vars}
Rows == {sm.table[p] : p \in DOMAIN sm.table}

\* The rows that have value v on the axis and the values of r on every other
\* variable
RowsAlong(r, axis, v) ==
    {t \in Rows : /\ Prop(t, axis) = <<v>>
                  /\ \A k \in VarNames \ {axis} : Prop(t, k) = Prop(r, k)}

RefOf(rows) == IF rows = {} THEN 0 ELSE (CHOOSE t \in rows : TRUE).ref

\* C23: after sort(order), find(the variable values of r) is r for every row r
\* of the table, and findAll(the variable values of r, axis) has one entry per
\* value of the axis, in the order of vars[axis], the i-th being the row with
\* the i-th value on the axis and the values of r on the other variables (no
\* row where the table has none).
C23_FindReconstructsTable ==
    Sorted =>
        \A r \in Rows :
            /\ find(sm, r) = r.ref
            /\ \A axis \in VarNames :
                LET values == VarGet(sm.vars, axis)[1]
                    all == findAll(sm, r, axis)
                IN  /\ Len(all) = Len(values)
                    /\ \A i \in DOMAIN values :
                          /\ Cardinality(RowsAlong(r, axis, values[i])) <= 1
                          /\ all[i] = RefOf(RowsAlong(r, axis, values[i]))
                    /\ \E i \in DOMAIN all : all[i] = r.ref

C23_Witness ==
    /\ Sorted /\ Len(sm.input) = 2
    /\ sm.keys = <<"x", "Builder", "Executor", "Name">>
    /\ Len(sm.table) = 8
    /\ \E r \in Rows :
        /\ r.tc = 2 /\ Prop(r, "x") = <<"q">>
        /\ \E i, j \in DOMAIN findAll(sm, r, "Name") :
            /\ findAll(sm, r, "Name")[i] = r.ref
            /\ findAll(sm, r, "Name")[j] \notin {0, r.ref}
        /\ findAll(sm, r, "x")[2] = r.ref /\ findAll(sm, r, "x")[1] \notin {0, r.ref}


\* name is the display name, in the suite of toolchain tc, of the raw value of
\* parameter key
IsDisplayNameOf(name, tc, key, raw) ==
    LET in == sm.input[tc] IN
    \E k \in DOMAIN in.rawParams : \E i \in DOMAIN in.rawParams[k].values :
        /\ in.rawParams[k].key = key /\ in.paramDef[k].key = key
        /\ in.rawParams[k].values[i] = raw
        /\ in.paramDef[k].values[i] = name

\* C24: every row of the table carries, for each parameter, the display name of
\* the raw value under which the metrics of the row were measured.
C24_RowsAlignedToCrossProduct ==
    \A r \in Rows :
        /\ Len(r.params) = Len(r.metrics.params)
        /\ \A j \in DOMAIN r.params :
            /\ r.params[j][1] = r.metrics.params[j][1]
            /\ IsDisplayNameOf(r.params[j][2], r.tc, r.params[j][1], r.metrics.params[j][2])

C24_Witness ==
    /\ Sorted /\ Len(sm.table) = 8
    /\ \E r \in Rows :
        /\ r.params = << <<"x", "q">>, <<"y", "3">> >>
        /\ r.metrics.params = << <<"x", Num("2")>>, <<"y", Num("3")>> >>
        /\ r.Name = <<"0">>


\* The row of the case of toolchain tc that was measured with the id, or 0
RowOfCase(tc, id) == RefOf({r \in Rows : r.tc = tc /\ r.metrics.id = id})

\* The notes of the toolchain results added so far, in order, each with the row
\* of the case it was recorded with
NotesExpected ==
    Flatten([tc \in 1..(sm.next - 1) |->
        [i \in DOMAIN sm.input[tc].notes |->
            LET n == sm.input[tc].notes[i]
            IN  [type |-> n.type, text |-> n.text,
                 row |-> IF n.caseId = NoId THEN 0 ELSE RowOfCase(tc, n.caseId)]]])

\* C25: every note recorded with a case is attached to the row of exactly that
\* case in the table (same name, same parameters, same toolchain), a note
\* without a case has no row, and the notes keep their order.
C25_NotesAttachedToTheirCase ==
    sm.pc # "idle" => sm.notes = NotesExpected


(***************************************************************************)
(* SpecNormalize: normalizeSuite (resolveParams) and convertBaseline, as   *)
(* runSuite calls them, on a suite definition.  The entries of a           *)
(* parameter definition are in the order of their declaration.             *)
(***************************************************************************)
MaxParams == 2

ParamKeys == {"x", "0", "Name"}

\* The values a parameter may be given: an iterable or an object
ParamValues == <<
    [form |-> "iter", values |-> <<>>],
    [form |-> "iter", values |-> <<Num("1"), Num("2")>>],
    [form |-> "iter", values |-> <<Num("1"), Str("1")>>],
    [form |-> "object", values |-> << <<"p", Str("v")>>, <<"q", Str("v")>> >>] >>

\* The keys of a parameter definition, in the order of their declaration: at
\* most MaxParams distinct string keys
ParamKeyLists ==
    {s \in SeqsUpTo(ParamKeys, MaxParams) : \A i, j \in DOMAIN s : i # j => s[i] # s[j]}

BaselineInputs == {
    NoBaseline,
    <<[type |-> "x", value |-> Num("2")]>>,
    <<[type |-> "x", value |-> Str("2")]>>,
    <<[type |-> "x", value |-> Str("v")]>>,
    <<[type |-> "x", value |-> Str("p")]>>,
    <<[type |-> "Name", value |-> Str("a")]>>,
    <<[type |-> "Name", value |-> Num("1")]>>,
    <<[type |-> "z", value |-> Num("1")]>> }

InitNormalize ==
    /\ \E ks \in ParamKeyLists, sk \in {0, 1}, baseline \in BaselineInputs :
       \E vs \in [DOMAIN ks -> DOMAIN ParamValues] :
        LET params == [entries |-> [i \in DOMAIN ks |->
                            ParamEntry(ks[i], ParamValues[vs[i]].form, ParamValues[vs[i]].values)],
                       symbolKeys |-> sk]
        IN  nsuite = [pc |-> "normalizeSuite",
                      input |-> [params |-> params, baseline |-> baseline],
                      norm |-> <<>>, error |-> NoError, baseline |-> NoBaseline]
    /\ IdleScene /\ IdleInvoke /\ IdleRun /\ IdleTime /\ IdleMeasure /\ IdleSummary /\ IdleRemote /\ IdleJobs /\ IdleHost

\* const suite = normalizeSuite(userSuite)
runSuite_normalizeSuite ==
    /\ nsuite.pc = "normalizeSuite"
    /\ LET r == normalizeSuite(nsuite.input)
       IN  nsuite' = IF r.ok THEN [nsuite EXCEPT !.pc = "convertBaseline", !.norm = <<r.value>>]
                     ELSE [nsuite EXCEPT !.pc = "thrown", !.error = r.error]
    /\ UNCHANGED <<sceneVars, invokeVars, runVars, timeVars, measureVars, summaryVars, remoteVars, jobVars, hostVars>>

\* const baseline = convertBaseline(suite)
runSuite_convertBaseline ==
    /\ nsuite.pc = "convertBaseline"
    /\ LET r == convertBaseline(nsuite.norm[1])
       IN  nsuite' = IF r.ok THEN [nsuite EXCEPT !.pc = "done", !.baseline = r.value]
                     ELSE [nsuite EXCEPT !.pc = "thrown", !.error = r.error]
    /\ UNCHANGED <<sceneVars, invokeVars, runVars, timeVars, measureVars, summaryVars, remoteVars, jobVars, hostVars>>

NextNormalize == runSuite_normalizeSuite \/ runSuite_convertBaseline

SpecNormalize == InitNormalize /\ [][NextNormalize]_vars

\* The definition given and what resolveParams made of it
Declared == nsuite.input.params.entries
Normalized == nsuite.pc \in {"convertBaseline", "done"} \/ nsuite.error.origin = "convertBaseline"
ParamsRejected == nsuite.pc = "thrown" /\ nsuite.error.origin = "resolveParams"

\* The display names of a declared parameter: the values of an iterable, the
\* keys of an object
NamesDeclared(entry) ==
    [i \in DOMAIN entry.values |->
        IF entry.form = "iter" THEN toDisplayName(entry.values[i]) ELSE entry.values[i][1]]

RawDeclared(entry) ==
    [i \in DOMAIN entry.values |->
        IF entry.form = "iter" THEN entry.values[i] ELSE entry.values[i][2]]

Invalid(params) ==
    \/ params.symbolKeys > 0
    \/ \E i \in DOMAIN params.entries :
        LET names == NamesDeclared(params.entries[i])
        IN  \/ params.entries[i].key \in BUILTIN_VARS
            \/ names = <<>>
            \/ \E j, k \in DOMAIN names : j # k /\ names[j] = names[k]

\* The two lists are parallel: the same keys and, for each key, as many raw
\* values as display names, which are distinct.
ParallelLists(n) ==
    /\ Len(n.params) = Len(n.paramNames)
    /\ \A i \in DOMAIN n.params :
        /\ n.params[i].key = n.paramNames[i].key
        /\ Len(n.params[i].values) = Len(n.paramNames[i].values)
        /\ \A j, k \in DOMAIN n.paramNames[i].values :
              j # k => n.paramNames[i].values[j] # n.paramNames[i].values[k]

\* C26 (as stated): resolveParams rejects a definition with a reserved key, a
\* symbol key, an empty value list or two equal display names in one parameter;
\* for every other definition it returns two parallel lists with the keys in
\* the order of their insertion and, per key, the raw values and the display
\* names in the order given.
C26_ResolveParams ==
    nsuite.pc # "normalizeSuite" =>
        /\ ParamsRejected <=> Invalid(nsuite.input.params)
        /\ Normalized =>
            LET n == nsuite.norm[1] IN
            /\ ParallelLists(n)
            /\ Len(n.params) = Len(Declared)
            /\ \A i \in DOMAIN Declared :
                /\ n.params[i].key = Declared[i].key
                /\ n.params[i].values = RawDeclared(Declared[i])
                /\ n.paramNames[i].values = NamesDeclared(Declared[i])


\* The baseline given and how convertBaseline ended
BaselineGiven == nsuite.input.baseline # NoBaseline
BaselineChecked == nsuite.pc = "done" \/ nsuite.error.origin = "convertBaseline"
BaselineAccepted == nsuite.pc = "done"

\* The position of the parameter the baseline names, in the normalised suite, or 0
BaselineParam ==
    IndexOf([k \in DOMAIN nsuite.norm[1].params |-> nsuite.norm[1].params[k].key],
            nsuite.input.baseline[1].type)

\* The value is the string of one of the display names of parameter i.
IsDisplayName(value, i) ==
    /\ value.type = "string"
    /\ \E k \in DOMAIN nsuite.norm[1].paramNames[i].values :
          nsuite.norm[1].paramNames[i].values[k] = value.text

\* The result carries a display name of the parameter the baseline names.
CarriesDisplayName ==
    /\ nsuite.baseline[1].type = nsuite.input.baseline[1].type
    /\ \E k \in DOMAIN nsuite.norm[1].paramNames[BaselineParam].values :
          nsuite.norm[1].paramNames[BaselineParam].values[k] = nsuite.baseline[1].value

\* C27 (as stated): a baseline whose type is a declared parameter is accepted
\* exactly when its value is one of the display names of that parameter, a
\* baseline whose type is neither a builtin variable nor a declared parameter is
\* rejected, and the baseline of the result carries the display name.
C27_BaselineByDisplayName ==
    (BaselineChecked /\ BaselineGiven /\ nsuite.input.baseline[1].type \notin BUILTIN_VARS) =>
        IF BaselineParam = 0 THEN ~BaselineAccepted
        ELSE /\ BaselineAccepted <=> IsDisplayName(nsuite.input.baseline[1].value, BaselineParam)
             /\ BaselineAccepted => CarriesDisplayName

\* C27 (amended): a baseline whose type is a declared parameter is accepted
\* exactly when its value is one of the raw values of that parameter, and the
\* baseline of the result carries the display name of the first such value; a
\* baseline whose type is neither builtin nor declared is rejected.
C27_BaselineByRawValue ==
    (BaselineChecked /\ BaselineGiven /\ nsuite.input.baseline[1].type \notin BUILTIN_VARS) =>
        IF BaselineParam = 0 THEN ~BaselineAccepted
        ELSE LET raw == nsuite.norm[1].params[BaselineParam].values
                 k == IndexOf(raw, nsuite.input.baseline[1].value)
             IN  /\ BaselineAccepted <=> k # 0
                 /\ BaselineAccepted =>
                      /\ CarriesDisplayName
                      /\ nsuite.baseline[1].value = nsuite.norm[1].paramNames[BaselineParam].values[k]

C27_Witness ==
    /\ BaselineAccepted
    /\ nsuite.input.baseline = <<[type |-> "x", value |-> Str("v")]>>
    /\ nsuite.baseline = <<[type |-> "x", value |-> "p"]>>
    /\ Len(nsuite.norm[1].params) = 2

\* ---------------------------------------------------------------------------
\* WebRemoteExecutor: the HTTP handler of the executor that serves a task to
\* any client that connects. handleRequest is an async function: it suspends
\* at `await json(request)` while the body of a POST is read, and the server
\* handles other requests meanwhile.
\* ---------------------------------------------------------------------------

\* Requests whose handler may be suspended at the same time
MaxRequests == 2

\* Calls of execute() in a run
MaxTasks == 2

\* Length of the recorded history
MaxEvents == 5

\* `this.task` when no task is installed
NoTask == 0

\* The two versions of the handler
RemoteVersions == {"core", "part_003"}

\* ClientMessage: a log message has a `level`; the result and the error do not
ClientMessages == {"log", "result", "error"}

\* "level" in message
HasLevel(message) == message = "log"

\* The paths a client requests
PagePaths == {"/", "/_es-bench/loader.js"}

TaskPaths == {"/_es-bench/task", "/_es-bench/message"}

FilePaths == {"/index.js"}

\* `arrived` is the task that was installed when the request of the event came
\* in, for the events of a message
RemoteEvent(ev, path, status, task, message, after) ==
    [ev |-> ev, path |-> path, status |-> status, task |-> task,
     message |-> message, after |-> after, arrived |-> NoTask]

FreeRequest == [pc |-> "free", dispatch |-> NoTask, arrived |-> NoTask]

InitRemote ==
    /\ \E version \in RemoteVersions :
        wr = [pc |-> "listening", version |-> version, task |-> NoTask, executed |-> 0,
              requests |-> [r \in 1..MaxRequests |-> FreeRequest]]
    /\ wlog = <<>>
    /\ IdleScene /\ IdleInvoke /\ IdleRun /\ IdleTime /\ IdleMeasure /\ IdleSummary /\ IdleNormalize /\ IdleJobs /\ IdleHost

Serving == wr.pc = "listening" /\ Len(wlog) < MaxEvents

\* execute(task) { this.task = task; }
\* The host starts a task when the previous one has been settled.
WebRemoteExecutor_execute ==
    /\ Serving
    /\ wr.task = NoTask
    /\ wr.executed < MaxTasks
    /\ wr' = [wr EXCEPT !.task = wr.executed + 1, !.executed = wr.executed + 1]
    /\ wlog' = Append(wlog, RemoteEvent("execute", "", 0, wr.executed + 1, "", wr.executed + 1))
    /\ UNCHANGED <<sceneVars, invokeVars, runVars, timeVars, measureVars, summaryVars, normVars, jobVars, hostVars>>

\* case "/": case "/_es-bench/loader.js": answered whatever the task
handleRequest_page ==
    /\ Serving
    /\ \E path \in PagePaths :
        wlog' = Append(wlog, RemoteEvent("response", path, 200, wr.task, "", wr.task))
    /\ UNCHANGED <<wr, sceneVars, invokeVars, runVars, timeVars, measureVars, summaryVars, normVars, jobVars, hostVars>>

\* if (!this.task) return response.writeHead(404).end()
handleRequest_noTask ==
    /\ Serving
    /\ wr.task = NoTask
    /\ \E path \in TaskPaths \cup FilePaths :
        wlog' = Append(wlog, RemoteEvent("response", path, 404, NoTask, "", NoTask))
    /\ UNCHANGED <<wr, sceneVars, invokeVars, runVars, timeVars, measureVars, summaryVars, normVars, jobVars, hostVars>>

\* if (path === "/_es-bench/task") return response.end(JSON.stringify(body))
handleRequest_task ==
    /\ Serving
    /\ wr.task # NoTask
    /\ wlog' = Append(wlog, RemoteEvent("response", "/_es-bench/task", 200, wr.task, "", wr.task))
    /\ UNCHANGED <<wr, sceneVars, invokeVars, runVars, timeVars, measureVars, summaryVars, normVars, jobVars, hostVars>>

\* The files of the task: served, or 404 when the file cannot be read
handleRequest_file ==
    /\ Serving
    /\ wr.task # NoTask
    /\ \E path \in FilePaths, status \in {200, 404} :
        wlog' = Append(wlog, RemoteEvent("response", path, status, wr.task, "", wr.task))
    /\ UNCHANGED <<wr, sceneVars, invokeVars, runVars, timeVars, measureVars, summaryVars, normVars, jobVars, hostVars>>

\* path === "/_es-bench/message", up to `await json(request)`. The newer
\* handler has taken `dispatch` out of this.task before it suspends; the
\* older one reads this.task again after it.
handleRequest_message ==
    /\ Serving
    /\ wr.task # NoTask
    /\ \E r \in 1..MaxRequests :
        /\ wr.requests[r].pc = "free"
        /\ wr' = [wr EXCEPT !.requests[r] =
                    [pc |-> "json", dispatch |-> IF wr.version = "core" THEN wr.task ELSE NoTask,
                     arrived |-> wr.task]]
    /\ UNCHANGED <<wlog, sceneVars, invokeVars, runVars, timeVars, measureVars, summaryVars, normVars, jobVars, hostVars>>

\* this.task = undefined, unless the message is a log
endTask(message, task) == IF HasLevel(message) THEN task ELSE NoTask

\* dispatch(message); if (!("level" in message)) this.task = undefined;
\* return response.writeHead(204).end()
handleRequest_dispatch ==
    /\ wr.pc = "listening"
    /\ \E r \in 1..MaxRequests, message \in ClientMessages :
        /\ wr.requests[r].pc = "json"
        /\ LET target == IF wr.version = "core" THEN wr.requests[r].dispatch ELSE wr.task
               after == endTask(message, wr.task)
               arrived == wr.requests[r].arrived
           IN  IF target = NoTask
               THEN \* this.task.dispatch of undefined: the handler throws
                    /\ wr' = [wr EXCEPT !.requests[r] = FreeRequest]
                    /\ wlog' = Append(wlog,
                         [RemoteEvent("throw", "/_es-bench/message", 0, NoTask, message, wr.task)
                            EXCEPT !.arrived = arrived])
               ELSE /\ wr' = [wr EXCEPT !.requests[r] = FreeRequest, !.task = after]
                    /\ wlog' = wlog \o
                         << [RemoteEvent("dispatch", "/_es-bench/message", 0, target, message, after)
                                EXCEPT !.arrived = arrived],
                            [RemoteEvent("response", "/_es-bench/message", 204, target, message, after)
                                EXCEPT !.arrived = arrived] >>
    /\ UNCHANGED <<sceneVars, invokeVars, runVars, timeVars, measureVars, summaryVars, normVars, jobVars, hostVars>>

NextRemote ==
    \/ WebRemoteExecutor_execute
    \/ handleRequest_page
    \/ handleRequest_noTask
    \/ handleRequest_task
    \/ handleRequest_file
    \/ handleRequest_message
    \/ handleRequest_dispatch

SpecRemote == InitRemote /\ [][NextRemote]_vars

\* The task has ended at event i: a message without a level was dispatched
\* and execute() has not been called since
EndedAt(i) ==
    \E j \in 1..(i - 1) :
        /\ wlog[j].ev = "dispatch" /\ ~HasLevel(wlog[j].message)
        /\ \A k \in (j + 1)..(i - 1) : wlog[k].ev # "execute"

\* C29: once a message without a level has been dispatched the executor has
\* no task, and every answer to /_es-bench/task and /_es-bench/message is a
\* 404 until execute() is called again; a message with a level is dispatched
\* and the task it was sent for stays installed.
C29_TaskEndsOnTerminalMessage ==
    wr.pc = "listening" =>
        \A i \in DOMAIN wlog :
            /\ (wlog[i].ev = "dispatch" /\ ~HasLevel(wlog[i].message))
                    => wlog[i].after = NoTask
            /\ (wlog[i].ev = "dispatch" /\ HasLevel(wlog[i].message))
                    => wlog[i].after = wlog[i].task
            /\ (wlog[i].ev = "response" /\ wlog[i].path \in TaskPaths /\ EndedAt(i)
                    /\ ~(wlog[i - 1].ev = "dispatch" /\ ~EndedAt(i - 1)))
                    => wlog[i].status = 404
            /\ wlog[i].ev # "throw"

\* A user callback of invoke has started while another one is in progress:
\* the workload's promise was pending when the hook was called
Overlaps(i) == itrace[i].ev \in {"before", "after"} /\ ~itrace[i].settled

\* C28: the driver awaits every call that may suspend before it goes on, so at
\* any moment of a run at most one user callback is in progress: no iteration
\* hook is called while the promise of the workload is pending, and the
\* workload is not called before the before-hooks called so far have completed.
C28_OneCallbackAtATime ==
    inv.pc # "idle" =>
        /\ \A i \in DOMAIN itrace : ~Overlaps(i)
        /\ \A i, j \in DOMAIN itrace :
              (itrace[i].ev = "before" /\ itrace[j].ev = "fn") => i < j


\* The position, from 0, of the value row r has for variable k in vars[k]
Digit(r, k) == indexOf(VarGet(sm.vars, k)[1], Prop(r, k))

\* The number whose digits, from the most significant, are the positions of
\* the values of r for the keys, each in the radix of the size of vars[key]
RECURSIVE MixedRadix(_, _, _)
MixedRadix(r, keys, acc) ==
    IF keys = <<>> THEN acc
    ELSE MixedRadix(r, Tail(keys),
                    acc * Len(VarGet(sm.vars, Head(keys))[1]) + Digit(r, Head(keys)))

\* r is before t, or at the place of t, in the lexicographic order of the
\* positions of their values along the keys
LexLeq(r, t, keys) ==
    \/ \A i \in DOMAIN keys : Digit(r, keys[i]) = Digit(t, keys[i])
    \/ \E i \in DOMAIN keys :
        /\ Digit(r, keys[i]) < Digit(t, keys[i])
        /\ \A j \in 1..(i - 1) : Digit(r, keys[j]) = Digit(t, keys[j])

\* C31: after sort(varOrder) the index of every row is the mixed-radix number
\* of the positions of its values in their vars sets, most significant digit
\* first in varOrder; rows that differ in a variable have different indices;
\* the table is in ascending order of the index, which is the lexicographic
\* order of the positions along varOrder; the constructor sorts with Name as
\* the least significant variable.
C31_SortIsMixedRadix ==
    Sorted =>
        /\ \A r \in Rows : r.index = MixedRadix(r, sm.keys, 0)
        /\ \A r, t \in Rows :
              (\E k \in VarNames : Prop(r, k) # Prop(t, k)) => r.index # t.index
        /\ \A p, q \in DOMAIN sm.table :
              p < q => /\ sm.table[p].index <= sm.table[q].index
                       /\ LexLeq(sm.table[p], sm.table[q], sm.keys)
        /\ sm.caller = "constructor" =>
              /\ sm.keys[Len(sm.keys)] = "Name"
              /\ {sm.keys[i] : i \in DOMAIN sm.keys} = VarNames

C31_Witness ==
    /\ Sorted /\ sm.caller = "reporter"
    /\ sm.keys = <<"Name", "Executor", "Builder", "x">>
    /\ Len(sm.table) = 8
    /\ \E p \in DOMAIN sm.table :
        /\ p < Len(sm.table)
        /\ sm.table[p].ref > sm.table[p + 1].ref
        /\ sm.table[p].index = p - 1


(***************************************************************************)
(* Grouping.  Summary.group keys the rows by their index without the       *)
(* contribution of the ignored variable; SummaryTableFilter.groupBy, the   *)
(* older form, keys them by a string made of the other variables' values.  *)
(***************************************************************************)

\* MultiMap.add: the row joins the list of the key, a new key goes to the end
MultiMapAdd(map, key, ref) ==
    IF \E i \in DOMAIN map : map[i].key = key
    THEN [i \in DOMAIN map |-> IF map[i].key = key
                               THEN [map[i] EXCEPT !.rows = Append(@, ref)] ELSE map[i]]
    ELSE Append(map, [key |-> key, rows |-> <<ref>>])

\* Summary.group(ignore): the rows keyed by
\* item[kIndex] - f * indexOf(vars.get(ignore), item[ignore])
RECURSIVE groupFrom(_, _, _, _)
groupFrom(s, ignore, p, map) ==
    IF p > Len(s.table) THEN map
    ELSE LET f == s.factors[IndexOf(s.keys, ignore)]
             item == s.table[p]
             key == item.index - f * indexOf(VarGet(s.vars, ignore)[1], Prop(item, ignore))
         IN  groupFrom(s, ignore, p + 1, MultiMapAdd(map, key, item.ref))

group(s, ignore) == groupFrom(s, ignore, 1, <<>>)

\* `${row[k]}`: the value, or "undefined" when the row has none
TemplateValue(row, k) == IF Prop(row, k) = <<>> THEN "undefined" ELSE Prop(row, k)[1]

\* parts.join(",")
RECURSIVE Join(_, _)
Join(parts, sep) ==
    IF parts = <<>> THEN ""
    ELSE IF Len(parts) = 1 THEN parts[1]
    ELSE parts[1] \o sep \o Join(Tail(parts), sep)

\* hashKey(row, keys): `${k}=${row[k]}` for every key, joined by commas
hashKey(row, keys) ==
    Join([i \in DOMAIN keys |-> keys[i] \o "=" \o TemplateValue(row, keys[i])], ",")

\* SummaryTableFilter.groupBy(key)
RECURSIVE groupByFrom(_, _, _, _)
groupByFrom(s, hKeys, p, map) ==
    IF p > Len(s.table) THEN map
    ELSE groupByFrom(s, hKeys, p + 1,
                     MultiMapAdd(map, hashKey(s.table[p], hKeys), s.table[p].ref))

groupBy(s, key) ==
    LET names == [i \in DOMAIN s.vars |-> s.vars[i].key]
    IN  groupByFrom(s, SelectSeq(names, LAMBDA k : k # key), 1, <<>>)

\* The rows of one scene of a stage: { ...params, Builder, Executor, Name }
StageRows(stage, scene, params, first) ==
    [i \in DOMAIN scene |->
        [ref |-> first + i, Name |-> scene[i], Executor |-> stage.executor,
         Builder |-> stage.builder, params |-> params]]

\* addStageResult, the loop over the scenes
RECURSIVE addStageScenes(_, _, _, _)
addStageScenes(s, stage, scenes, combs) ==
    IF scenes = <<>> THEN s
    ELSE LET rows == StageRows(stage, Head(scenes), Head(combs), Len(s.table))
         IN  addStageScenes([s EXCEPT !.table = @ \o rows,
                                      !.vars = addToVar(@, "Name", [i \in DOMAIN rows |-> rows[i].Name])],
                            stage, Tail(scenes), Tail(combs))

\* addStageResult: Builder, Executor and the parameters join `vars`, then the rows
addStageResult(s, stage) ==
    LET v1 == IF stage.builder # <<>> THEN addToVar(s.vars, "Builder", stage.builder) ELSE s.vars
        v2 == IF stage.executor # <<>> THEN addToVar(v1, "Executor", stage.executor) ELSE v1
        def == Object_entries(stage.paramDef)
        RECURSIVE addParams(_, _)
        addParams(vs, d) ==
            IF d = <<>> THEN vs
            ELSE addParams(addToVar(vs, Head(d).key, Head(d).values), Tail(d))
    IN  addStageScenes([s EXCEPT !.vars = addParams(v2, def)], stage, stage.scenes,
                       cartesianObject(def))

\* The parameter definitions of the suites, by display name
FilterParams == {
    <<>>,
    << [key |-> "x", values |-> <<"a", "b">>] >>,
    << [key |-> "x", values |-> <<"a">>], [key |-> "y", values |-> <<"c", "d">>] >>,
    << [key |-> "x", values |-> <<"a", "a,y=b">>], [key |-> "y", values |-> <<"c", "b,y=c">>] >> }

\* The cases of a suite, the same in every scene
FilterCases == { <<"a">>, <<"a", "b">> }

\* The toolchains that ran the suite: the builder and the executor of each stage
FilterTools == {
    << [builder |-> <<>>, executor |-> <<>>] >>,
    << [builder |-> <<"None">>, executor |-> <<"node">>] >>,
    << [builder |-> <<"None">>, executor |-> <<"node">>],
       [builder |-> <<"Rollup">>, executor |-> <<"node">>] >> }

StageResult(tool, paramDef, cases) ==
    [builder |-> tool.builder, executor |-> tool.executor, paramDef |-> paramDef,
     scenes |-> [i \in DOMAIN cartesianObject(paramDef) |-> cases]]

InitFilter ==
    /\ \E paramDef \in FilterParams, cases \in FilterCases, tools \in FilterTools :
        sm = [pc |-> "addStageResult",
              input |-> [t \in DOMAIN tools |-> StageResult(tools[t], paramDef, cases)],
              next |-> 1, vars |-> <<[key |-> "Name", values |-> <<>>]>>, table |-> <<>>,
              axis |-> "", groups |-> <<>>]
    /\ IdleScene /\ IdleInvoke /\ IdleRun /\ IdleTime /\ IdleMeasure /\ IdleRemote /\ IdleNormalize /\ IdleJobs /\ IdleHost

\* The constructor, one turn of its loop: this.addStageResult(result)
SummaryTableFilter_addStageResult ==
    /\ sm.pc = "addStageResult" /\ sm.next <= Len(sm.input)
    /\ sm' = [addStageResult(sm, sm.input[sm.next]) EXCEPT !.next = @ + 1]
    /\ UNCHANGED <<sceneVars, invokeVars, runVars, timeVars, measureVars, remoteVars, normVars, jobVars, hostVars>>

\* The constructor returns.
SummaryTableFilter_constructor ==
    /\ sm.pc = "addStageResult" /\ sm.next > Len(sm.input)
    /\ sm' = [sm EXCEPT !.pc = "built"]
    /\ UNCHANGED <<sceneVars, invokeVars, runVars, timeVars, measureVars, remoteVars, normVars, jobVars, hostVars>>

\* filter.groupBy(key), called by a reporter with one of the variables
SummaryTableFilter_groupBy ==
    /\ sm.pc \in {"built", "grouped"}
    /\ \E i \in DOMAIN sm.vars :
        sm' = [sm EXCEPT !.pc = "grouped", !.axis = sm.vars[i].key,
                         !.groups = groupBy(sm, sm.vars[i].key)]
    /\ UNCHANGED <<sceneVars, invokeVars, runVars, timeVars, measureVars, remoteVars, normVars, jobVars, hostVars>>

NextFilter ==
    \/ SummaryTableFilter_addStageResult
    \/ SummaryTableFilter_constructor
    \/ SummaryTableFilter_groupBy

SpecFilter == InitFilter /\ [][NextFilter]_vars

\* The groups partition the rows, and two rows are in one group exactly when
\* they have equal values for every variable but the axis
Partitions(groups, axis) ==
    /\ \A r \in Rows :
          Cardinality({<<g, i>> \in (DOMAIN groups) \X (1..Len(sm.table)) :
                          i \in DOMAIN groups[g].rows /\ groups[g].rows[i] = r.ref}) = 1
    /\ \A r, t \in Rows :
          (\E g \in DOMAIN groups :
              /\ \E i \in DOMAIN groups[g].rows : groups[g].rows[i] = r.ref
              /\ \E i \in DOMAIN groups[g].rows : groups[g].rows[i] = t.ref)
          <=> (\A k \in VarNames \ {axis} : Prop(r, k) = Prop(t, k))

\* C32: group(axis) partitions the table: two rows are in the same group if and
\* only if they have equal values for every variable other than the ignored
\* axis, and every row is in exactly one group.
C32_GroupPartitions ==
    sm.pc = "grouped" => Partitions(sm.groups, sm.axis)


(***************************************************************************)
(* SpecWorkflow: a profiler (the validator) creates a second context with  *)
(* ctx.newWorkflow in its onStart and runs it, then the parent goes on.    *)
(* `ctx` is the parent, frame.child the context newWorkflow returned.      *)
(***************************************************************************)
WorkflowVersions == {"core", "part_001"}

consoleLogHandler == "consoleLogHandler"

\* new ProfilingContext(suite, profilers, options), with the fields the
\* workflow reads: options.pattern ?? RE_ANY, options.log ?? consoleLogHandler
newProfilingContext(s, profilers, options) ==
    LET c == ProfilingContext(Option(options.pattern, RE_ANY))
    IN  [scenes |-> c.scenes, notes |-> c.notes, meta |-> c.meta, pattern |-> c.pattern,
         hasRun |-> c.hasRun, caseIndex |-> c.caseIndex, workingParams |-> c.workingParams,
         suite |-> s, profilers |-> profilers,
         logHandler |-> Option(options.log, consoleLogHandler)]

\* newWorkflow(profilers, options): the newer form fills the pattern and the
\* log handler of the options from the parent, the older one passes the
\* options as they are
newWorkflow(version, c, profilers, options) ==
    IF version = "core"
    THEN newProfilingContext(c.suite, profilers,
            [pattern |-> IF options.pattern = <<>> THEN <<c.pattern>> ELSE options.pattern,
             log |-> IF options.log = <<>> THEN <<c.logHandler>> ELSE options.log])
    ELSE newProfilingContext(c.suite, profilers, options)

\* The suites: their parameters and the cases their setup registers
WorkflowSuites ==
    [params : {<<>>, <<[key |-> "x", values |-> <<Num("1"), Num("2")>>]>>},
     setup : {<<Op("bench", <<"a">>), Op("benchAsync", <<"b">>)>>,
              <<Op("bench", <<"a">>)>>,
              <<Op("bench", <<"b">>), Op("bench", <<"a", "b">>)>>}]

\* The options given to newWorkflow: <<>> is a key that is not given
WorkflowOptions == [pattern : {<<>>, <<"b">>}, log : {<<>>, <<"silent">>}]

InitWorkflow ==
    /\ \E version \in WorkflowVersions, s \in WorkflowSuites,
          pattern \in {<<>>, <<"a">>}, log \in {<<>>, <<"custom">>} :
        /\ ctx = run(newProfilingContext(s, <<"DefaultEventLogger", "ExecutionValidator", "TimeProfiler">>,
                                         [pattern |-> pattern, log |-> log])).value
        /\ frame = [version |-> version, child |-> <<>>, created |-> <<>>, parent |-> <<>>,
                    options |-> <<>>, comb |-> 0, reruns |-> 0]
    /\ pc = "onStart"
    /\ suite = [name |-> "workflow"]
    /\ outcome = [state |-> "idle"]
    /\ trace = <<>> /\ sceneLog = <<>> /\ rerun = <<>>
    /\ IdleScene /\ IdleInvoke /\ IdleTime /\ IdleMeasure /\ IdleSummary /\ IdleRemote /\ IdleNormalize /\ IdleJobs /\ IdleHost

\* A profiler of the parent describes its metric in onStart.
Workflow_defineMetric ==
    /\ pc = "onStart" /\ ctx.meta = <<>>
    /\ ctx' = defineMetric(ctx, [key |-> "time", by |-> TimeProfiler])
    /\ UNCHANGED <<suite, pc, frame, outcome, trace, sceneLog, rerun>>
    /\ UNCHANGED <<sceneVars, invokeVars, timeVars, measureVars, summaryVars, remoteVars, normVars, jobVars, hostVars>>

\* onStart of the validator: ctx.newWorkflow([validator], options)
Workflow_newWorkflow ==
    /\ pc = "onStart"
    /\ \E options \in WorkflowOptions :
        LET child == newWorkflow(frame.version, ctx, <<"ExecutionValidator">>, options)
        IN  frame' = [frame EXCEPT !.child = <<child>>, !.created = <<child>>,
                                   !.parent = <<ctx>>, !.options = <<options>>]
    /\ pc' = "workflow"
    /\ UNCHANGED <<suite, ctx, outcome, trace, sceneLog, rerun>>
    /\ UNCHANGED <<sceneVars, invokeVars, timeVars, measureVars, summaryVars, remoteVars, normVars, jobVars, hostVars>>

\* child.run(): the guard and the flag; a second call throws
Workflow_run ==
    /\ pc \in {"workflow", "workflowDone"}
    /\ LET r == run(frame.child[1])
       IN  IF r.ok THEN /\ frame' = [frame EXCEPT !.child = <<r.value>>]
                        /\ pc' = "workflowScene"
           ELSE /\ pc = "workflowDone" /\ frame.reruns = 0
                /\ frame' = [frame EXCEPT !.reruns = 1]
                /\ UNCHANGED pc
    /\ UNCHANGED <<suite, ctx, outcome, trace, sceneLog, rerun>>
    /\ UNCHANGED <<sceneVars, invokeVars, timeVars, measureVars, summaryVars, remoteVars, normVars, jobVars, hostVars>>

\* One scene of a run of context c: setup, the cases, and a note on the last id
runSceneOf(c, comb) ==
    LET scene == runSetup(Scene(comb, c.pattern), c.suite.setup).scene
        c1 == runCases([c EXCEPT !.scenes = Append(@, <<>>)], scene.cases, comb)
    IN  IF scene.cases = <<>> THEN c1
        ELSE note(c1, "info", "note", [id |-> c1.caseIndex - 1])

\* The run of the child, one combination at a time
Workflow_runScene ==
    /\ pc = "workflowScene"
    /\ LET combs == cartesianObject(frame.child[1].suite.params)
       IN  IF frame.comb >= Len(combs)
           THEN /\ pc' = "workflowDone"
                /\ frame' = [frame EXCEPT !.comb = 0]
           ELSE /\ frame' = [frame EXCEPT !.comb = @ + 1,
                                          !.child = <<runSceneOf(frame.child[1], combs[frame.comb + 1])>>]
                /\ UNCHANGED pc
    /\ UNCHANGED <<suite, ctx, outcome, trace, sceneLog, rerun>>
    /\ UNCHANGED <<sceneVars, invokeVars, timeVars, measureVars, summaryVars, remoteVars, normVars, jobVars, hostVars>>

\* The run of the parent goes on after the onStart hooks, one combination at a time
Workflow_parentScene ==
    /\ pc = "workflowDone"
    /\ LET combs == cartesianObject(ctx.suite.params)
       IN  /\ frame.comb < Len(combs)
           /\ ctx' = runSceneOf(ctx, combs[frame.comb + 1])
           /\ frame' = [frame EXCEPT !.comb = @ + 1, !.parent = <<ctx'>>]
    /\ UNCHANGED <<suite, pc, outcome, trace, sceneLog, rerun>>
    /\ UNCHANGED <<sceneVars, invokeVars, timeVars, measureVars, summaryVars, remoteVars, normVars, jobVars, hostVars>>

NextWorkflow ==
    \/ Workflow_defineMetric
    \/ Workflow_newWorkflow
    \/ Workflow_run
    \/ Workflow_runScene
    \/ Workflow_parentScene

SpecWorkflow == InitWorkflow /\ [][NextWorkflow]_vars

HasWorkflow == pc \in {"workflow", "workflowScene", "workflowDone"}

\* The names of the cases recorded in each scene of a context
CasesSeen(c) == [i \in DOMAIN c.scenes |-> [j \in DOMAIN c.scenes[i] |-> c.scenes[i][j][1]]]

\* C33: the context newWorkflow returns is fresh (not run, nothing recorded),
\* has the profilers given and not those of the parent, and the suite of the
\* parent; its pattern and its log handler are those of the options when
\* given and those of the parent otherwise, so that without a pattern of its
\* own it sees the cases the parent measures; running it changes neither the
\* scenes, notes, meta nor the caseIndex of the parent.
C33_NewWorkflow ==
    HasWorkflow =>
        LET child == frame.child[1]
            created == frame.created[1]
            options == frame.options[1]
        IN  /\ ~created.hasRun /\ created.scenes = <<>> /\ created.notes = <<>>
            /\ created.meta = <<>> /\ created.caseIndex = 0
            /\ child.profilers = <<"ExecutionValidator">>
            /\ child.suite = ctx.suite
            /\ child.pattern = Option(options.pattern, ctx.pattern)
            /\ child.logHandler = Option(options.log, ctx.logHandler)
            /\ options.pattern = <<>> =>
                  \A i \in DOMAIN child.scenes :
                      CasesSeen(child)[i] = ExpectedCases(ctx.suite.setup, ctx.pattern)
            /\ ctx.scenes = frame.parent[1].scenes /\ ctx.notes = frame.parent[1].notes
            /\ ctx.meta = frame.parent[1].meta /\ ctx.caseIndex = frame.parent[1].caseIndex
            /\ ctx.hasRun /\ (pc = "workflow" => ~child.hasRun)


(***************************************************************************)
(* SpecJobs: JobGenerator.  Toolchain items are added one by one, then      *)
(* build() builds with every builder registered and getJobs() pairs the    *)
(* executors with the builds.  A Map is a sequence of entries in insertion *)
(* order, a Set of files a set.                                            *)
(***************************************************************************)

\* Toolchain items added to one generator
MaxItems == 3

Executors == {"E1", "E2"}
Builders == {"B1", "B2"}
SuiteFiles == {"f1", "f2"}

\* { name, use }: a tool under a name.  A tool listed as it is has its own name.
Nameable(name, use) == [name |-> name, use |-> use]

\* /^\s*$/.test(name), for the names of the model
IsBlankName(name) == name \in {"", " "}

\* RegExp.test of a filter on a tool name: the empty pattern matches every name
ToolTest(re, name) == re = RE_ANY \/ re = name

\* Map.get(tool): the position of the entry of the tool, or 0
EntryOf(set, tool) == IndexOf([i \in DOMAIN set |-> set[i].tool], tool)

\* The name is not compared with the names of the other tools.
unwrap_noUniqueCheck(set, tool) ==
    LET exist == EntryOf(set, tool.use)
    IN  IF IsBlankName(tool.name)
        THEN Throw(Error("Tool name must be a non-blank string", "unwrap"))
        ELSE IF exist = 0
        THEN Ok(Append(set, [name |-> tool.name, tool |-> tool.use, fileSet |-> {}]))
        ELSE IF set[exist].name = tool.name THEN Ok(set)
        ELSE Throw(Error("A tool can only have one name", "unwrap"))

\* unwrap(keyMethod, tool) on the Map of its kind: the Map with the entry of the
\* tool, or the error
unwrap(set, tool) ==
    LET exist == EntryOf(set, tool.use)
    IN  IF IsBlankName(tool.name)
        THEN Throw(Error("Tool name must be a non-blank string", "unwrap"))
        ELSE IF \E i \in DOMAIN set : set[i].tool # tool.use /\ set[i].name = tool.name
        THEN Throw(Error("Each tool must have a unique name", "unwrap"))
        ELSE IF exist = 0
        THEN Ok(Append(set, [name |-> tool.name, tool |-> tool.use, fileSet |-> {}]))
        ELSE IF set[exist].name = tool.name THEN Ok(set)
        ELSE Throw(Error("A tool can only have one name", "unwrap"))

\* files.forEach(Set.prototype.add, entry.fileSet) for the entries of the tools
AddFiles(set, tools, files) ==
    [i \in DOMAIN set |-> IF set[i].tool \in tools
                          THEN [set[i] EXCEPT !.fileSet = @ \cup files] ELSE set[i]]

\* item.executors.filter(...).map(unwrap): the executors in order; the first
\* unwrap that throws ends add, with the entries made so far kept
RECURSIVE unwrapExecutors(_, _, _)
unwrapExecutors(g, tools, ue) ==
    IF tools = <<>> THEN [ok |-> TRUE, g |-> g, ue |-> ue, error |-> NoError]
    ELSE LET r == unwrap(g.eSet, Head(tools))
         IN  IF ~r.ok THEN [ok |-> FALSE, g |-> g, ue |-> ue, error |-> r.error]
             ELSE unwrapExecutors([g EXCEPT !.eSet = r.value], Tail(tools),
                                  Append(ue, Head(tools).use))

\* UniqueMultiMap.distribute(keys, value): the value joins the set of every key
RECURSIVE distribute(_, _, _)
distribute(e2b, keys, value) ==
    IF keys = <<>> THEN e2b
    ELSE LET k == IndexOf([i \in DOMAIN e2b |-> e2b[i].executor], Head(keys))
             next == IF k = 0 THEN Append(e2b, [executor |-> Head(keys), builders |-> <<value>>])
                     ELSE IF IndexOf(e2b[k].builders, value) # 0 THEN e2b
                     ELSE [e2b EXCEPT ![k].builders = Append(@, value)]
         IN  distribute(next, Tail(keys), value)

\* add, the loop over item.builders
RECURSIVE addBuilders(_, _, _, _, _)
addBuilders(g, builders, ue, files, builderRE) ==
    IF builders = <<>> THEN [ok |-> TRUE, g |-> g, error |-> NoError]
    ELSE IF ~ToolTest(builderRE, Head(builders).name)
    THEN addBuilders(g, Tail(builders), ue, files, builderRE)
    ELSE LET r == unwrap(g.bSet, Head(builders))
         IN  IF ~r.ok THEN [ok |-> FALSE, g |-> g, error |-> r.error]
             ELSE addBuilders([g EXCEPT !.bSet = AddFiles(r.value, {Head(builders).use}, files),
                                        !.e2b = distribute(@, ue, Head(builders).use)],
                              Tail(builders), ue, files, builderRE)

\* add(item), `files` being the files of the item that pass the filter
addItem(g, item, files, filter) ==
    LET selected == SelectSeq(item.executors, LAMBDA e : ToolTest(filter.executor, e.name))
        u == unwrapExecutors(g, selected, <<>>)
        g1 == [u.g EXCEPT !.eSet = AddFiles(@, {u.ue[i] : i \in DOMAIN u.ue}, files)]
    IN  IF files = {} THEN [ok |-> TRUE, g |-> g, error |-> NoError]
        ELSE IF ~u.ok THEN [ok |-> FALSE, g |-> u.g, error |-> u.error]
        ELSE addBuilders(g1, item.builders, u.ue, files, filter.builder)

\* Every file of the output is kept.
jobFiles_all(output, fileSet) == output.files

\* output.files.filter(f => fileSet.has(f))
jobFiles(output, fileSet) == output.files \cap fileSet

\* getJobs, one executor: the builds that have files of the executor
jobBuilds(g, builders, fileSet) ==
    LET outputs == [i \in DOMAIN builders |->
                        LET k == EntryOf(g.bOutput, builders[i])
                        IN  IF k = 0 THEN [name |-> "", tool |-> builders[i], files |-> {}]
                            ELSE [g.bOutput[k] EXCEPT !.files = jobFiles(g.bOutput[k], fileSet)]]
    IN  SelectSeq(outputs, LAMBDA o : o.files # {})

\* getJobs(): a job for every executor of e2b that has builds
getJobs(g) ==
    LET all == [i \in DOMAIN g.e2b |->
                    LET et == g.eSet[EntryOf(g.eSet, g.e2b[i].executor)]
                    IN  [name |-> et.name, executor |-> et.tool,
                         builds |-> jobBuilds(g, g.e2b[i].builders, et.fileSet)]]
    IN  SelectSeq(all, LAMBDA j : j.builds # <<>>)

\* The lists of executors and of builders of the toolchain items
ExecutorLists == {
    << Nameable("node", "E1") >>,
    << Nameable("bun", "E2") >>,
    << Nameable("node", "E1"), Nameable("bun", "E2") >>,
    << Nameable("node", "E2") >>,
    << Nameable(" ", "E1") >> }

BuilderLists == {
    <<>>,
    << Nameable("None", "B1") >>,
    << Nameable("Vite", "B2") >>,
    << Nameable("None", "B1"), Nameable("Vite", "B2") >>,
    << Nameable("None", "B2") >>,
    << Nameable("Rollup", "B1") >> }

\* context.filter: the patterns of --executor and --builder, the path of --file
JobFilters == {
    [executor |-> RE_ANY, builder |-> RE_ANY, file |-> ""],
    [executor |-> "node", builder |-> RE_ANY, file |-> "f1"],
    [executor |-> RE_ANY, builder |-> "Vite", file |-> ""] }

InitJobs ==
    /\ \E filter \in JobFilters :
        jg = [pc |-> "add", filter |-> filter,
              eSet |-> <<>>, bSet |-> <<>>, e2b |-> <<>>, bOutput |-> <<>>,
              added |-> 0, paired |-> {}, usedE |-> {}, usedB |-> {},
              last |-> [executors |-> {}, builders |-> {}], error |-> NoError,
              built |-> <<>>, jobs |-> <<>>]
    /\ IdleScene /\ IdleInvoke /\ IdleRun /\ IdleTime /\ IdleMeasure /\ IdleSummary
    /\ IdleRemote /\ IdleNormalize /\ IdleHost

\* The state of the generator proper
Generator == [eSet |-> jg.eSet, bSet |-> jg.bSet, e2b |-> jg.e2b, bOutput |-> jg.bOutput]

\* The <<name, tool>> pairs of a list whose names pass a pattern
Selected(list, re) ==
    {<<list[i].name, list[i].use>> : i \in {j \in DOMAIN list : ToolTest(re, list[j].name)}}

\* generator.add(item): of the files the glob finds, the file filter keeps the
\* paths that include its part, and shared.roll() some of those
JobGenerator_add ==
    /\ jg.pc = "add" /\ jg.added < MaxItems
    /\ \E executors \in ExecutorLists, builders \in BuilderLists,
          files \in SUBSET {f \in SuiteFiles : jg.filter.file \in {"", f}} :
       \E r \in {addItem(Generator, [executors |-> executors, builders |-> builders],
                           files, jg.filter)} :
        LET se == Selected(executors, jg.filter.executor)
            sb == Selected(builders, jg.filter.builder)
        IN  jg' = [jg EXCEPT !.pc = IF r.ok THEN "add" ELSE "thrown",
                             !.eSet = r.g.eSet, !.bSet = r.g.bSet, !.e2b = r.g.e2b,
                             !.added = @ + 1, !.error = r.error,
                             !.last = IF files = {} THEN [executors |-> {}, builders |-> {}]
                                      ELSE [executors |-> se, builders |-> sb],
                             !.paired = IF r.ok
                                        THEN @ \cup {<<e[2], b[2], f>> : e \in se, b \in sb, f \in files}
                                        ELSE @,
                             !.usedE = IF r.ok THEN @ \cup {<<e[2], f>> : e \in se, f \in files} ELSE @,
                             !.usedB = IF r.ok THEN @ \cup {<<b[2], f>> : b \in sb, f \in files} ELSE @]
    /\ UNCHANGED <<sceneVars, invokeVars, runVars, timeVars, measureVars, summaryVars, remoteVars, normVars, hostVars>>

\* await generator.build(), one turn of its loop: await dt.tool.build(root, files)
\* and bOutput.set(dt.tool, { name, root, files })
JobGenerator_build ==
    /\ jg.pc \in {"add", "build"}
    /\ Len(jg.bOutput) < Len(jg.bSet)
    /\ LET dt == jg.bSet[Len(jg.bOutput) + 1]
       IN  jg' = [jg EXCEPT !.pc = "build",
                            !.built = Append(@, [tool |-> dt.tool, files |-> dt.fileSet]),
                            !.bOutput = Append(@, [name |-> dt.name, tool |-> dt.tool,
                                                   files |-> dt.fileSet])]
    /\ UNCHANGED <<sceneVars, invokeVars, runVars, timeVars, measureVars, summaryVars, remoteVars, normVars, hostVars>>

\* Array.from(generator.getJobs()), after build() has returned
JobGenerator_getJobs ==
    /\ jg.pc \in {"add", "build"}
    /\ Len(jg.bOutput) = Len(jg.bSet)
    /\ jg' = [jg EXCEPT !.pc = "jobs", !.jobs = getJobs(Generator)]
    /\ UNCHANGED <<sceneVars, invokeVars, runVars, timeVars, measureVars, summaryVars, remoteVars, normVars, hostVars>>

NextJobs == JobGenerator_add \/ JobGenerator_build \/ JobGenerator_getJobs

SpecJobs == InitJobs /\ [][NextJobs]_vars


\* The <<name, tool>> pairs of a Map of tools
NamePairs(set) == {<<set[i].name, set[i].tool>> : i \in DOMAIN set}

\* No two tools under one name, no tool under two names
Consistent(pairs) ==
    \A p \in pairs, q \in pairs : (p[1] = q[1] \/ p[2] = q[2]) => p = q

\* C34: over any sequence of add() calls two different executors never share a
\* name, two different builders never share a name and no tool has two
\* names; an add() whose tools, with those registered, would break this throws.
C34_ToolNamesConsistent ==
    /\ Len(jg.eSet) = Cardinality(NamePairs(jg.eSet)) /\ Consistent(NamePairs(jg.eSet))
    /\ Len(jg.bSet) = Cardinality(NamePairs(jg.bSet)) /\ Consistent(NamePairs(jg.bSet))
    /\ (\/ ~Consistent(NamePairs(jg.eSet) \cup jg.last.executors)
        \/ ~Consistent(NamePairs(jg.bSet) \cup jg.last.builders)) => jg.pc = "thrown"

\* The third add gives the name of a registered builder to another builder
C34_Witness ==
    /\ jg.pc = "thrown" /\ jg.added = 3
    /\ jg.error.message = "Each tool must have a unique name"
    /\ Len(jg.bSet) = 2 /\ Len(jg.eSet) = 2
    /\ ~Consistent(NamePairs(jg.bSet) \cup jg.last.builders)

\* The files of the items that use a tool
FilesOf(used, tool) == {p[2] : p \in {q \in used : q[1] = tool}}

\* C35: build() builds every selected builder exactly once, with the union of the
\* files of the items that use it; getJobs() yields at most one job per executor,
\* every job has builds, and every build of a job has files, all of them in
\* the file set of the executor.
C35_BuildOnceJobsPerExecutor ==
    jg.pc = "jobs" =>
        /\ \A b \in {p[1] : p \in jg.usedB} :
            /\ Cardinality({i \in DOMAIN jg.built : jg.built[i].tool = b}) = 1
            /\ \A i \in DOMAIN jg.built :
                jg.built[i].tool = b => jg.built[i].files = FilesOf(jg.usedB, b)
        /\ \A i \in DOMAIN jg.built : FilesOf(jg.usedB, jg.built[i].tool) # {}
        /\ \A i \in DOMAIN jg.jobs, j \in DOMAIN jg.jobs :
            jg.jobs[i].executor = jg.jobs[j].executor => i = j
        /\ \A i \in DOMAIN jg.jobs :
            /\ jg.jobs[i].builds # <<>>
            /\ \A k \in DOMAIN jg.jobs[i].builds :
                /\ jg.jobs[i].builds[k].files # {}
                /\ jg.jobs[i].builds[k].files \subseteq FilesOf(jg.usedE, jg.jobs[i].executor)
                /\ jg.jobs[i].builds[k].files \subseteq FilesOf(jg.usedB, jg.jobs[i].builds[k].tool)

\* Two builders built, one of them with every file, one job with both builds,
\* the build of the other builder with fewer files than the executor has, and
\* an executor that has files and yields no job
C35_Witness ==
    /\ jg.pc = "jobs" /\ jg.added = 3
    /\ Len(jg.built) = 2
    /\ \E i \in DOMAIN jg.built : jg.built[i].files = SuiteFiles
    /\ Len(jg.jobs) = 1 /\ Len(jg.jobs[1].builds) = 2
    /\ \E k \in DOMAIN jg.jobs[1].builds :
        jg.jobs[1].builds[k].files # FilesOf(jg.usedE, jg.jobs[1].executor)
    /\ \E p \in jg.usedE : \A i \in DOMAIN jg.jobs : jg.jobs[i].executor # p[1]

\* C36: every (executor, builder, file) of the jobs comes from one toolchain item
\* that lists the executor and the builder and matches the file.
C36_JobsComeFromOneItem ==
    jg.pc = "jobs" =>
        \A i \in DOMAIN jg.jobs : \A k \in DOMAIN jg.jobs[i].builds :
            \A f \in jg.jobs[i].builds[k].files :
                <<jg.jobs[i].executor, jg.jobs[i].builds[k].tool, f>> \in jg.paired


\* A message without a level was dispatched at event i
TerminalAt(i) == wlog[i].ev = "dispatch" /\ ~HasLevel(wlog[i].message)

\* C37: for every task at most one message without a level is dispatched to it,
\* every message is dispatched to the task that was installed when its request
\* arrived, and no handler reads `dispatch` of a task that has been cleared.
C37_OneTerminalMessagePerTask ==
    wr.pc = "listening" =>
        /\ \A i \in DOMAIN wlog, j \in DOMAIN wlog :
            (TerminalAt(i) /\ TerminalAt(j) /\ wlog[i].task = wlog[j].task) => i = j
        /\ \A i \in DOMAIN wlog :
            wlog[i].ev = "dispatch" => wlog[i].task = wlog[i].arrived
        /\ \A i \in DOMAIN wlog : wlog[i].ev # "throw"

\* C38: the task execute() installed is the current task until a message without
\* a level that was sent for that task has been dispatched; a request of an
\* earlier task that completes late does not clear it.
C38_TaskStaysUntilItsTerminalMessage ==
    wr.pc = "listening" =>
        \A j \in DOMAIN wlog :
            (/\ wlog[j].ev = "execute"
             /\ \A k \in (j + 1)..Len(wlog) :
                    ~(TerminalAt(k) /\ wlog[k].arrived = wlog[j].task))
                => wr.task = wlog[j].task


(***************************************************************************)
(* SpecHost: the host loop ESBench.run with a NodeRunner and a             *)
(* DirectExecutor.  A NodeRunner is a child process: the host and the      *)
(* worker exchange messages over a channel, and a message of the worker is *)
(* handled by the listener the process has when the host's event loop gets *)
(* to it.  NodeRunner.run returns nothing, so `await engine.run(context)`  *)
(* resumes in the same turn of the event loop, and so does                 *)
(* `await engine.close()`.  DirectExecutor.run imports the build into the  *)
(* host and returns the promise of its client.                             *)
(***************************************************************************)

\* Stages of the configuration
MaxStages == 2

\* "n1" is a NodeRunner, "d1" a DirectExecutor
HostEngines == {"n1", "d1"}

IsDirect(engine) == engine = "d1"
HostBuilders == {"b1", "b2"}

\* The listener of a process that has none
NoListener == ""

\* The listener start() installs with once("message", resolve)
StartListener == "start"

HostEvent(ev, engine, build, collector) ==
    [ev |-> ev, engine |-> engine, build |-> build, collector |-> collector]

\* The configurations: every stage has a builder and a list of engines
StageLists ==
    LET Stage == [builder : HostBuilders,
                  engines : {<<"n1">>, <<"d1">>, <<"n1", "d1">>, <<"d1", "n1">>}]
    IN  UNION {[1..n -> Stage] : n \in 1..MaxStages}

InitHost ==
    /\ \E stages \in StageLists :
        host = [pc |-> "build", stages |-> stages, si |-> 1, map |-> <<>>, ei |-> 1, bi |-> 1,
                process |-> [e \in HostEngines |-> "none"],
                listener |-> [e \in HostEngines |-> NoListener],
                worker |-> [e \in HostEngines |-> <<>>],
                channel |-> [e \in HostEngines |-> <<>>],
                logged |-> FALSE, log |-> <<>>]
    /\ IdleScene /\ IdleInvoke /\ IdleRun /\ IdleTime /\ IdleMeasure /\ IdleSummary
    /\ IdleRemote /\ IdleNormalize /\ IdleJobs

\* map.add(engine, value) for every engine of the stage
RECURSIVE addBuild(_, _, _)
addBuild(map, engines, value) ==
    IF engines = <<>> THEN map
    ELSE addBuild(MultiMapAdd(map, Head(engines), value), Tail(engines), value)

\* The loop over the stages, one turn: await builder.build(...) and map.add
ESBench_build ==
    /\ host.pc = "build"
    /\ LET stage == host.stages[host.si]
       IN  host' = [host EXCEPT !.map = addBuild(@, stage.engines, stage.builder),
                                !.si = @ + 1,
                                !.pc = IF host.si = Len(host.stages) THEN "start" ELSE "build"]
    /\ UNCHANGED <<sceneVars, invokeVars, runVars, timeVars, measureVars, summaryVars, remoteVars, normVars, jobVars>>

\* engine.start(): the process is forked, its first message will resolve the
\* promise; the worker sends its node info when it starts
NodeRunner_start ==
    /\ host.pc = "start" /\ ~IsDirect(host.map[host.ei].key)
    /\ LET engine == host.map[host.ei].key
       IN  host' = [host EXCEPT !.pc = "starting",
                                !.process[engine] = "alive",
                                !.listener[engine] = StartListener,
                                !.worker[engine] = <<>>,
                                !.channel[engine] = <<[kind |-> "info", build |-> ""]>>,
                                !.log = Append(@, HostEvent("start", engine, "", ""))]
    /\ UNCHANGED <<sceneVars, invokeVars, runVars, timeVars, measureVars, summaryVars, remoteVars, normVars, jobVars>>

\* The host is at an await of a pending promise, or run() has returned: the
\* event loop emits the messages that have arrived
HostYields == host.pc \in {"starting", "running", "reporting", "done"}

\* A "message" event of a process: the listener it has now is called.  The
\* listener of start() resumes run(); a handleMessage logs the message or gives
\* its result to the collector it was made with.
NodeRunner_message ==
    /\ HostYields
    /\ \E engine \in HostEngines :
        /\ host.channel[engine] # <<>>
        /\ LET message == Head(host.channel[engine])
               listener == host.listener[engine]
               rest == [host EXCEPT !.channel[engine] = Tail(@)]
           IN  IF listener = NoListener THEN host' = rest
               ELSE IF listener = StartListener
               THEN host' = [rest EXCEPT !.listener[engine] = NoListener,
                                         !.pc = IF host.pc = "starting" THEN "run" ELSE @,
                                         !.bi = 1]
               ELSE IF message.kind = "log"
               THEN host' = [rest EXCEPT !.log = Append(@, HostEvent("log", engine, message.build, listener))]
               ELSE host' = [rest EXCEPT !.log = Append(@, HostEvent("collect", engine, message.build, listener))]
    /\ UNCHANGED <<sceneVars, invokeVars, runVars, timeVars, measureVars, summaryVars, remoteVars, normVars, jobVars>>

\* The loop over the builds of the engine, one turn: a new collector, a new
\* handleMessage, and NodeRunner.run: removeAllListeners("message"),
\* on("message", handleMessage), send({ entry, task, files })
NodeRunner_run ==
    /\ host.pc = "run" /\ ~IsDirect(host.map[host.ei].key)
    /\ LET engine == host.map[host.ei].key
           builds == host.map[host.ei].rows
           build == builds[host.bi]
       IN  host' = [host EXCEPT !.listener[engine] = build,
                                !.worker[engine] = Append(@, [build |-> build, logged |-> FALSE]),
                                !.log = Append(@, HostEvent("run", engine, build, build)),
                                !.bi = @ + 1,
                                !.pc = IF host.bi = Len(builds) THEN "close" ELSE "run"]
    /\ UNCHANGED <<sceneVars, invokeVars, runVars, timeVars, measureVars, summaryVars, remoteVars, normVars, jobVars>>

\* await engine.close(): this.process.kill(); what the worker had to do is lost
NodeRunner_close ==
    /\ host.pc = "close" /\ ~IsDirect(host.map[host.ei].key)
    /\ LET engine == host.map[host.ei].key
       IN  host' = [host EXCEPT !.process[engine] = "killed",
                                !.worker[engine] = <<>>,
                                !.log = Append(@, HostEvent("close", engine, "", "")),
                                !.ei = @ + 1,
                                !.pc = IF host.ei = Len(host.map) THEN "report" ELSE "start"]
    /\ UNCHANGED <<sceneVars, invokeVars, runVars, timeVars, measureVars, summaryVars, remoteVars, normVars, jobVars>>

\* The worker, on a message of the host: it imports the entry and runs the
\* client, which sends log messages and then the result
Worker_send ==
    /\ \E engine \in HostEngines, kind \in {"log", "result"} :
        /\ host.process[engine] = "alive"
        /\ host.worker[engine] # <<>>
        /\ LET job == Head(host.worker[engine])
           IN  /\ kind = "log" => ~job.logged
               /\ host' = [host EXCEPT
                     !.channel[engine] = Append(@, [kind |-> kind, build |-> job.build]),
                     !.worker[engine] = IF kind = "log"
                                        THEN <<[job EXCEPT !.logged = TRUE]>> \o Tail(@)
                                        ELSE Tail(@)]
    /\ UNCHANGED <<sceneVars, invokeVars, runVars, timeVars, measureVars, summaryVars, remoteVars, normVars, jobVars>>

\* DirectExecutor.start() returns the name: run() goes on in the same turn
DirectExecutor_start ==
    /\ host.pc = "start" /\ IsDirect(host.map[host.ei].key)
    /\ host' = [host EXCEPT !.pc = "run", !.bi = 1,
                            !.log = Append(@, HostEvent("start", host.map[host.ei].key, "", ""))]
    /\ UNCHANGED <<sceneVars, invokeVars, runVars, timeVars, measureVars, summaryVars, remoteVars, normVars, jobVars>>

\* DirectExecutor.run, up to `await import(url)`: the host loop waits for the
\* promise it returns
DirectExecutor_run ==
    /\ host.pc = "run" /\ IsDirect(host.map[host.ei].key)
    /\ LET build == host.map[host.ei].rows[host.bi]
       IN  host' = [host EXCEPT !.pc = "running", !.logged = FALSE,
                                !.log = Append(@, HostEvent("run", host.map[host.ei].key, build, build))]
    /\ UNCHANGED <<sceneVars, invokeVars, runVars, timeVars, measureVars, summaryVars, remoteVars, normVars, jobVars>>

\* module.default(handleMessage, files, pattern): the client calls the
\* handleMessage it was given with log messages and then with the result, and
\* its promise is fulfilled
DirectExecutor_client ==
    /\ host.pc = "running"
    /\ LET engine == host.map[host.ei].key
           builds == host.map[host.ei].rows
           build == builds[host.bi]
       IN  \E kind \in {"log", "result"} :
            IF kind = "log"
            THEN /\ ~host.logged
                 /\ host' = [host EXCEPT !.logged = TRUE,
                                         !.log = Append(@, HostEvent("log", engine, build, build))]
            ELSE host' = [host EXCEPT !.log = Append(@, HostEvent("collect", engine, build, build)),
                                      !.bi = @ + 1,
                                      !.pc = IF host.bi = Len(builds) THEN "close" ELSE "run"]
    /\ UNCHANGED <<sceneVars, invokeVars, runVars, timeVars, measureVars, summaryVars, remoteVars, normVars, jobVars>>

\* DirectExecutor.close() {}
DirectExecutor_close ==
    /\ host.pc = "close" /\ IsDirect(host.map[host.ei].key)
    /\ host' = [host EXCEPT !.log = Append(@, HostEvent("close", host.map[host.ei].key, "", "")),
                            !.ei = @ + 1,
                            !.pc = IF host.ei = Len(host.map) THEN "report" ELSE "start"]
    /\ UNCHANGED <<sceneVars, invokeVars, runVars, timeVars, measureVars, summaryVars, remoteVars, normVars, jobVars>>

\* for (const reporter of reporters) await reporter(result)
ESBench_report ==
    /\ host.pc = "report"
    /\ host' = [host EXCEPT !.pc = "reporting", !.log = Append(@, HostEvent("report", "", "", ""))]
    /\ UNCHANGED <<sceneVars, invokeVars, runVars, timeVars, measureVars, summaryVars, remoteVars, normVars, jobVars>>

\* The reporters have settled and run() returns
ESBench_return ==
    /\ host.pc = "reporting"
    /\ host' = [host EXCEPT !.pc = "done"]
    /\ UNCHANGED <<sceneVars, invokeVars, runVars, timeVars, measureVars, summaryVars, remoteVars, normVars, jobVars>>

NextHost ==
    \/ ESBench_build
    \/ NodeRunner_start
    \/ NodeRunner_message
    \/ NodeRunner_run
    \/ NodeRunner_close
    \/ Worker_send
    \/ DirectExecutor_start
    \/ DirectExecutor_run
    \/ DirectExecutor_client
    \/ DirectExecutor_close
    \/ ESBench_report
    \/ ESBench_return

SpecHost == InitHost /\ [][NextHost]_vars

\* The result of the run started at event i was collected, by the collector of
\* that run, before event j
CollectedBetween(i, j) ==
    \E k \in (i + 1)..(j - 1) :
        /\ host.log[k].ev = "collect"
        /\ host.log[k].engine = host.log[i].engine
        /\ host.log[k].build = host.log[i].build
        /\ host.log[k].collector = host.log[i].build

\* C39: the result of every run is handled by the collector of that run before
\* the next build is started on the engine and before the engine is closed, and
\* the reporters run after every run that was started has delivered its result.
C39_ResultBeforeNextRun ==
    host.pc # "idle" =>
        \A i \in DOMAIN host.log, j \in DOMAIN host.log :
            (/\ i < j
             /\ host.log[i].ev = "run"
             /\ \/ host.log[j].ev \in {"run", "close"} /\ host.log[j].engine = host.log[i].engine
                \/ host.log[j].ev = "report")
                => CollectedBetween(i, j)

=============================================================================
